---- MODULE Spec2Model ----
(***************************************************************************)
(* RoboEyes (src/gifeye.py): the eye-animation state of one RoboEyes       *)
(* object, its setters and controls, and update()/drawEyes(), which        *)
(* advances the state once per frame.  Times are milliseconds of the       *)
(* monotonic clock.                                                        *)
(***************************************************************************)
EXTENDS Integers, FiniteSets, Sequences, TLC

VARIABLES
  eyes,   \* the fields of the RoboEyes object
  now,    \* time.monotonic_ns() // 1_000_000
  obs     \* history: the last operation, the state before the last caller
          \* call, the ticks since, what the last tick fired, any exception

vars == <<eyes, now, obs>>

(***************************************************************************)
(* Program constants                                                       *)
(***************************************************************************)
ScreenWidth == 128
ScreenHeight == 64

DEFAULT == 0
TIRED == 1
ANGRY == 2
HAPPY == 3

N == 1
NE == 2
E == 3
SE == 4
S == 5
SW == 6
W == 7
NW == 8

CuriousOffset == 8
CuriousMargin == 10
ConfusedAmplitude == 20
LaughAmplitude == 5
DefaultFps == 50

(***************************************************************************)
(* Bounds of the model                                                     *)
(***************************************************************************)
MaxCalls == 2        \* caller calls (setters, controls) in one run
CallWindow == 1      \* ticks after a call within which the next may come
GeomQuiet == 3       \* ticks after the last call in the geometry runs
AllQuiet == 2        \* ticks after the last call in the runs of all operations
SettleTicks == 8     \* ticks after which a halving tween over the value
                     \* ranges used here has stopped moving
MaxQuiet == 2 * SettleTicks  \* ticks after the last caller call: an eye
                             \* can close and open again
OverlaySettleTicks == 5  \* the same for an eyelid overlay (at most 16 px)
PosSettleTicks == 8  \* the same for a position after eyes opened
FineTime == 34       \* the clock is observed every millisecond up to here
ClockMax == 80       \* the last millisecond observed in the clock runs
AutoCallTime == 20   \* callers call up to this millisecond in the blinker runs
AutoMaxTime == 2100  \* the last millisecond observed in the blinker runs
MaxTime == 700       \* the last millisecond observed in the one-shot runs

(***************************************************************************)
(* Arithmetic of the source                                                *)
(***************************************************************************)
\* int(n / 2): Python's true division followed by truncation toward zero.
TruncHalf(n) == IF n >= 0 THEN n \div 2 ELSE -((-n) \div 2)

\* n // 2: floor division.
FloorHalf(n) == n \div 2

\* A tween that rounds half up: the bug of approaching from above instead.
TweenCeil(cur, nxt) == (cur + nxt + 1) \div 2

\* A tween that ends one past the middle.
TweenDrift(cur, nxt) == TruncHalf(cur + nxt) + 1

\* current = int((current + next) / 2)
Tween(cur, nxt) == TruncHalf(cur + nxt)

\* The least k with 2^k >= n (n >= 1): ceil(log2(n)).
RECURSIVE CeilLog2(_)
CeilLog2(n) == IF n <= 1 THEN 0 ELSE 1 + CeilLog2((n + 1) \div 2)

Abs(n) == IF n >= 0 THEN n ELSE -n

\* random.randint(lo, hi) sampled at its ends and its middle (k in Picks).
Picks == {0, 1, 2}
RandInt(lo, hi, k) == CASE k = 0 -> lo
                        [] k = 1 -> (lo + hi) \div 2
                        [] OTHER -> hi

(***************************************************************************)
(* Construction: __init__ followed by begin(128, 64, 50)                   *)
(***************************************************************************)
Constructed ==
  LET w == 36
      h == 36
      gap == 10
      lx == (ScreenWidth - (w + gap + w)) \div 2
      ly == (ScreenHeight - h) \div 2
  IN [ frameInterval |-> 1000 \div DefaultFps, fpsTimer |-> 0,
       tired |-> FALSE, angry |-> FALSE, happy |-> FALSE,
       curious |-> FALSE, cyclops |-> FALSE,
       eyeL_open |-> FALSE, eyeR_open |-> FALSE,
       eyeLwidthDefault |-> w, eyeLheightDefault |-> h,
       eyeLwidthCurrent |-> w, eyeLheightCurrent |-> 1,
       eyeLwidthNext |-> w, eyeLheightNext |-> h, eyeLheightOffset |-> 0,
       eyeLborderRadiusDefault |-> 8, eyeLborderRadiusCurrent |-> 8,
       eyeLborderRadiusNext |-> 8,
       eyeRwidthDefault |-> w, eyeRheightDefault |-> h,
       eyeRwidthCurrent |-> w, eyeRheightCurrent |-> 1,
       eyeRwidthNext |-> w, eyeRheightNext |-> h, eyeRheightOffset |-> 0,
       eyeRborderRadiusDefault |-> 8, eyeRborderRadiusCurrent |-> 8,
       eyeRborderRadiusNext |-> 8,
       spaceBetweenDefault |-> gap, spaceBetweenCurrent |-> gap,
       spaceBetweenNext |-> 10,
       eyeLx |-> lx, eyeLy |-> ly, eyeLxNext |-> lx, eyeLyNext |-> ly,
       eyeRx |-> lx + w + gap, eyeRy |-> ly,
       eyeRxNext |-> lx + w + gap, eyeRyNext |-> ly,
       eyelidsTiredHeight |-> 0, eyelidsTiredHeightNext |-> 0,
       eyelidsAngryHeight |-> 0, eyelidsAngryHeightNext |-> 0,
       eyelidsHappyBottomOffset |-> 0, eyelidsHappyBottomOffsetNext |-> 0,
       hFlicker |-> FALSE, hFlickerAlternate |-> FALSE, hFlickerAmplitude |-> 2,
       vFlicker |-> FALSE, vFlickerAlternate |-> FALSE, vFlickerAmplitude |-> 10,
       autoblinker |-> FALSE, blinkInterval |-> 1,
       blinkIntervalVariation |-> 4, blinktimer |-> 0,
       idle |-> FALSE, idleInterval |-> 1,
       idleIntervalVariation |-> 3, idleAnimationTimer |-> 0,
       confused |-> FALSE, confusedAnimationTimer |-> 0,
       confusedAnimationDuration |-> 500, confusedToggle |-> TRUE,
       laugh |-> FALSE, laughAnimationTimer |-> 0,
       laughAnimationDuration |-> 500, laughToggle |-> TRUE ]

NoCall == [op |-> "none", args |-> <<>>]

Init ==
  /\ eyes = Constructed
  /\ now = 0
  /\ obs = [ last |-> "init", call |-> NoCall, pre |-> Constructed,
             quiet |-> 0, calls |-> 0, fired |-> {}, raised |-> FALSE,
             everOpenL |-> FALSE, everOpenR |-> FALSE,
             confusedAt |-> -1, laughAt |-> -1,
             confusedOnAt |-> -1, laughOnAt |-> -1,
             confusedOffAt |-> -1, laughOffAt |-> -1,
             blinkAt |-> -1, blinkSetAt |-> -1 ]

(***************************************************************************)
(* Setters, getters and controls, as functions of the object's fields s    *)
(***************************************************************************)
\* 1000 // 0 raises ZeroDivisionError before anything is assigned.
setFramerate(s, fps) ==
  IF fps = 0 THEN s ELSE [s EXCEPT !.frameInterval = 1000 \div fps]

setWidth(s, leftEye, rightEye) ==
  [s EXCEPT !.eyeLwidthNext = leftEye, !.eyeRwidthNext = rightEye,
            !.eyeLwidthDefault = leftEye, !.eyeRwidthDefault = rightEye]

setHeight(s, leftEye, rightEye) ==
  [s EXCEPT !.eyeLheightNext = leftEye, !.eyeRheightNext = rightEye,
            !.eyeLheightDefault = leftEye, !.eyeRheightDefault = rightEye]

setBorderradius(s, leftEye, rightEye) ==
  [s EXCEPT !.eyeLborderRadiusNext = leftEye, !.eyeRborderRadiusNext = rightEye,
            !.eyeLborderRadiusDefault = leftEye,
            !.eyeRborderRadiusDefault = rightEye]

\* A setSpacebetween that moves the eyes apart at once.
setSpacebetweenSnap(s, space) ==
  [s EXCEPT !.spaceBetweenNext = space, !.spaceBetweenDefault = space,
            !.spaceBetweenCurrent = space]

setSpacebetween(s, space) ==
  [s EXCEPT !.spaceBetweenNext = space, !.spaceBetweenDefault = space]

\* A setMood that sets the flag of the mood and leaves the others alone.
setMoodSticky(s, mood) ==
  [s EXCEPT !.tired = IF mood = TIRED THEN TRUE ELSE @,
            !.angry = IF mood = ANGRY THEN TRUE ELSE @,
            !.happy = IF mood = HAPPY THEN TRUE ELSE @]

setMood(s, mood) ==
  [s EXCEPT !.tired = (mood = TIRED),
            !.angry = (mood # TIRED /\ mood = ANGRY),
            !.happy = (mood # TIRED /\ mood # ANGRY /\ mood = HAPPY)]

\* A travel range that forgets the right eye's width.
getScreenConstraint_XLeftOnly(s) ==
  ScreenWidth - s.eyeLwidthCurrent - s.spaceBetweenCurrent

getScreenConstraint_X(s) ==
  ScreenWidth - s.eyeLwidthCurrent - s.spaceBetweenCurrent - s.eyeRwidthCurrent

getScreenConstraint_Y(s) == ScreenHeight - s.eyeLheightDefault

\* A setPosition that sends NW to the top centre.
setPositionSlip(s, position) ==
  LET X == getScreenConstraint_X(s)
      Y == getScreenConstraint_Y(s)
      to(x, y) == [s EXCEPT !.eyeLxNext = x, !.eyeLyNext = y]
  IN CASE position = N  -> to(X \div 2, 0)
       [] position = NE -> to(X, 0)
       [] position = E  -> to(X, Y \div 2)
       [] position = SE -> to(X, Y)
       [] position = S  -> to(X \div 2, Y)
       [] position = SW -> to(0, Y)
       [] position = W  -> to(0, Y \div 2)
       [] position = NW -> to(X \div 2, 0)
       [] OTHER         -> to(X \div 2, Y \div 2)

setPosition(s, position) ==
  LET X == getScreenConstraint_X(s)
      Y == getScreenConstraint_Y(s)
      to(x, y) == [s EXCEPT !.eyeLxNext = x, !.eyeLyNext = y]
  IN CASE position = N  -> to(X \div 2, 0)
       [] position = NE -> to(X, 0)
       [] position = E  -> to(X, Y \div 2)
       [] position = SE -> to(X, Y)
       [] position = S  -> to(X \div 2, Y)
       [] position = SW -> to(0, Y)
       [] position = W  -> to(0, Y \div 2)
       [] position = NW -> to(0, 0)
       [] OTHER         -> to(X \div 2, Y \div 2)

\* random.randint(0, variation) raises ValueError when variation < 0; the
\* three fields are assigned before it is called.
setAutoblinker(s, t, active, interval, variation, k) ==
  LET s1 == [s EXCEPT !.autoblinker = active, !.blinkInterval = interval,
                      !.blinkIntervalVariation = variation]
  IN IF active /\ variation >= 0
       THEN [s1 EXCEPT !.blinktimer =
               t + interval * 1000 + RandInt(0, variation, k) * 1000]
       ELSE s1

setIdleMode(s, t, active, interval, variation, k) ==
  LET s1 == [s EXCEPT !.idle = active, !.idleInterval = interval,
                      !.idleIntervalVariation = variation]
  IN IF active /\ variation >= 0
       THEN [s1 EXCEPT !.idleAnimationTimer =
               t + interval * 1000 + RandInt(0, variation, k) * 1000]
       ELSE s1

setCuriosity(s, curiousBit) == [s EXCEPT !.curious = curiousBit]

setCyclops(s, cyclopsBit) == [s EXCEPT !.cyclops = cyclopsBit]

setHFlicker(s, flickerBit, amplitude) ==
  [s EXCEPT !.hFlicker = flickerBit, !.hFlickerAmplitude = amplitude]

setVFlicker(s, flickerBit, amplitude) ==
  [s EXCEPT !.vFlicker = flickerBit, !.vFlickerAmplitude = amplitude]

\* A close() that lowers the height targets and leaves the open flags.
closeKeepsOpen(s, left, right) ==
  [s EXCEPT !.eyeLheightNext = IF left THEN 1 ELSE @,
            !.eyeRheightNext = IF right THEN 1 ELSE @]

\* A close() that sends the height to 0, not to the 1 of a closed eye.
closeToZero(s, left, right) ==
  LET s1 == IF left THEN [s EXCEPT !.eyeLheightNext = 0, !.eyeL_open = FALSE]
                    ELSE s
  IN IF right THEN [s1 EXCEPT !.eyeRheightNext = 0, !.eyeR_open = FALSE]
              ELSE s1

close(s, left, right) ==
  LET s1 == IF left THEN [s EXCEPT !.eyeLheightNext = 1, !.eyeL_open = FALSE]
                    ELSE s
  IN IF right THEN [s1 EXCEPT !.eyeRheightNext = 1, !.eyeR_open = FALSE]
              ELSE s1

open(s, left, right) ==
  LET s1 == IF left THEN [s EXCEPT !.eyeL_open = TRUE,
                                   !.eyeLheightNext = s.eyeLheightDefault]
                    ELSE s
  IN IF right THEN [s1 EXCEPT !.eyeR_open = TRUE,
                              !.eyeRheightNext = s.eyeRheightDefault]
              ELSE s1

\* A blink that closes both eyes whichever are selected.
blinkBoth(s, left, right) == close(s, TRUE, TRUE)

blink(s, left, right) == close(s, left, right)

\* An anim_confused() that does not reset the toggle: a call while the
\* animation runs changes nothing.
anim_confusedOnce(s) == [s EXCEPT !.confused = TRUE]

anim_confused(s) == [s EXCEPT !.confused = TRUE, !.confusedToggle = TRUE]

anim_laugh(s) == [s EXCEPT !.laugh = TRUE, !.laughToggle = TRUE]

(***************************************************************************)
(* drawEyes(), in the order of the source.  t is the time it reads.        *)
(***************************************************************************)
\* A curious gaze that widens the left eye at the far right in any mode.
CuriousGazeAnyMode(s) ==
  IF s.curious
    THEN [s EXCEPT
           !.eyeLheightOffset =
              IF s.eyeLxNext <= CuriousMargin THEN CuriousOffset
              ELSE IF s.eyeLxNext >= getScreenConstraint_X(s) - CuriousMargin
                THEN CuriousOffset
              ELSE 0,
           !.eyeRheightOffset =
              IF s.eyeRxNext >= ScreenWidth - s.eyeRwidthCurrent - CuriousMargin
                THEN CuriousOffset ELSE 0]
    ELSE [s EXCEPT !.eyeLheightOffset = 0, !.eyeRheightOffset = 0]

\* Vertical size offset for larger eyes when looking left or right.
CuriousGaze(s) ==
  IF s.curious
    THEN [s EXCEPT
           !.eyeLheightOffset =
              IF s.eyeLxNext <= CuriousMargin THEN CuriousOffset
              ELSE IF s.eyeLxNext >= getScreenConstraint_X(s) - CuriousMargin
                      /\ s.cyclops THEN CuriousOffset
              ELSE 0,
           !.eyeRheightOffset =
              IF s.eyeRxNext >= ScreenWidth - s.eyeRwidthCurrent - CuriousMargin
                THEN CuriousOffset ELSE 0]
    ELSE [s EXCEPT !.eyeLheightOffset = 0, !.eyeRheightOffset = 0]

\* Height tweening and the vertical centring of an eye that is not at its
\* default height (the y of each eye is moved before it is tweened).
TweenHeights(s) ==
  LET hL == TruncHalf(s.eyeLheightCurrent + s.eyeLheightNext + s.eyeLheightOffset)
      hR == TruncHalf(s.eyeRheightCurrent + s.eyeRheightNext + s.eyeRheightOffset)
  IN [s EXCEPT
        !.eyeLheightCurrent = hL,
        !.eyeLy = s.eyeLy + ((s.eyeLheightDefault - hL) \div 2)
                          - (s.eyeLheightOffset \div 2),
        !.eyeRheightCurrent = hR,
        !.eyeRy = s.eyeRy + ((s.eyeRheightDefault - hR) \div 2)
                          - (s.eyeRheightOffset \div 2)]

\* Open eyes again after closing them (if the eye's open flag is set).
Reopen(s) ==
  [s EXCEPT
     !.eyeLheightNext =
        IF s.eyeL_open /\ s.eyeLheightCurrent <= 1 + s.eyeLheightOffset
          THEN s.eyeLheightDefault ELSE @,
     !.eyeRheightNext =
        IF s.eyeR_open /\ s.eyeRheightCurrent <= 1 + s.eyeRheightOffset
          THEN s.eyeRheightDefault ELSE @]

\* A geometry tween that derives the right eye's target from the width and
\* the gap of the frame before.
TweenGeometryStale(s) ==
  LET rxN == s.eyeLxNext + s.eyeLwidthCurrent + s.spaceBetweenCurrent
      ryN == s.eyeLyNext
  IN [s EXCEPT
        !.eyeLwidthCurrent = Tween(s.eyeLwidthCurrent, s.eyeLwidthNext),
        !.eyeRwidthCurrent = Tween(s.eyeRwidthCurrent, s.eyeRwidthNext),
        !.spaceBetweenCurrent = Tween(s.spaceBetweenCurrent, s.spaceBetweenNext),
        !.eyeLx = Tween(s.eyeLx, s.eyeLxNext),
        !.eyeLy = Tween(s.eyeLy, s.eyeLyNext),
        !.eyeRxNext = rxN,
        !.eyeRyNext = ryN,
        !.eyeRx = Tween(s.eyeRx, rxN),
        !.eyeRy = Tween(s.eyeRy, ryN),
        !.eyeLborderRadiusCurrent =
           Tween(s.eyeLborderRadiusCurrent, s.eyeLborderRadiusNext),
        !.eyeRborderRadiusCurrent =
           Tween(s.eyeRborderRadiusCurrent, s.eyeRborderRadiusNext)]

\* Width, gap, coordinates and border radius; the right eye's target is
\* derived from the left eye's before the right eye is tweened.
TweenGeometry(s) ==
  LET wL == Tween(s.eyeLwidthCurrent, s.eyeLwidthNext)
      wR == Tween(s.eyeRwidthCurrent, s.eyeRwidthNext)
      gap == Tween(s.spaceBetweenCurrent, s.spaceBetweenNext)
      rxN == s.eyeLxNext + wL + gap
      ryN == s.eyeLyNext
  IN [s EXCEPT
        !.eyeLwidthCurrent = wL,
        !.eyeRwidthCurrent = wR,
        !.spaceBetweenCurrent = gap,
        !.eyeLx = Tween(s.eyeLx, s.eyeLxNext),
        !.eyeLy = Tween(s.eyeLy, s.eyeLyNext),
        !.eyeRxNext = rxN,
        !.eyeRyNext = ryN,
        !.eyeRx = Tween(s.eyeRx, rxN),
        !.eyeRy = Tween(s.eyeRy, ryN),
        !.eyeLborderRadiusCurrent =
           Tween(s.eyeLborderRadiusCurrent, s.eyeLborderRadiusNext),
        !.eyeRborderRadiusCurrent =
           Tween(s.eyeRborderRadiusCurrent, s.eyeRborderRadiusNext)]

\* An auto blink that forgets the interval when it reschedules.
AutoBlinkSoon(s, t, k) ==
  IF s.autoblinker /\ t >= s.blinktimer
    THEN [blink(s, TRUE, TRUE) EXCEPT !.blinktimer =
            t + RandInt(0, s.blinkIntervalVariation, k) * 1000]
    ELSE s

\* Auto blink.  blink() has run when randint raises on a negative variation.
BlinkDue(s, t) == s.autoblinker /\ t >= s.blinktimer
BlinkRaises(s, t) == BlinkDue(s, t) /\ s.blinkIntervalVariation < 0
AutoBlink(s, t, k) ==
  IF BlinkDue(s, t)
    THEN LET s1 == blink(s, TRUE, TRUE)
         IN IF BlinkRaises(s, t) THEN s1
            ELSE [s1 EXCEPT !.blinktimer =
                    t + s.blinkInterval * 1000
                      + RandInt(0, s.blinkIntervalVariation, k) * 1000]
    ELSE s

\* Laughing: eyes shaking up and down.
LaughOn(s) == s.laugh /\ s.laughToggle
LaughOff(s, t) ==
  s.laugh /\ ~s.laughToggle
          /\ t >= s.laughAnimationTimer + s.laughAnimationDuration
Laugh(s, t) ==
  IF LaughOn(s)
    THEN [setVFlicker(s, TRUE, LaughAmplitude) EXCEPT
            !.laughAnimationTimer = t, !.laughToggle = FALSE]
  ELSE IF LaughOff(s, t)
    THEN [setVFlicker(s, FALSE, 0) EXCEPT
            !.laughToggle = TRUE, !.laugh = FALSE]
  ELSE s

\* A confused animation armed with setHFlicker's default amplitude.
ConfusedWeak(s, t) ==
  IF s.confused /\ s.confusedToggle
    THEN [setHFlicker(s, TRUE, 2) EXCEPT
            !.confusedAnimationTimer = t, !.confusedToggle = FALSE]
  ELSE IF s.confused /\ t >= s.confusedAnimationTimer + s.confusedAnimationDuration
    THEN [setHFlicker(s, FALSE, 0) EXCEPT
            !.confusedToggle = TRUE, !.confused = FALSE]
  ELSE s

\* A confused animation that ends one frame interval early.
ConfusedEarly(s, t) ==
  IF s.confused /\ s.confusedToggle
    THEN [setHFlicker(s, TRUE, ConfusedAmplitude) EXCEPT
            !.confusedAnimationTimer = t, !.confusedToggle = FALSE]
  ELSE IF s.confused /\ t + s.frameInterval
                          >= s.confusedAnimationTimer + s.confusedAnimationDuration
    THEN [setHFlicker(s, FALSE, 0) EXCEPT
            !.confusedToggle = TRUE, !.confused = FALSE]
  ELSE s

\* A confused animation that never ends by itself.
ConfusedStuck(s, t) ==
  IF s.confused /\ s.confusedToggle
    THEN [setHFlicker(s, TRUE, ConfusedAmplitude) EXCEPT
            !.confusedAnimationTimer = t, !.confusedToggle = FALSE]
  ELSE s

\* A confused animation that ends without switching the flicker off.
ConfusedKeepsFlicker(s, t) ==
  IF s.confused /\ s.confusedToggle
    THEN [setHFlicker(s, TRUE, ConfusedAmplitude) EXCEPT
            !.confusedAnimationTimer = t, !.confusedToggle = FALSE]
  ELSE IF s.confused /\ t >= s.confusedAnimationTimer + s.confusedAnimationDuration
    THEN [s EXCEPT !.confusedToggle = TRUE, !.confused = FALSE]
  ELSE s

\* Confused: eyes shaking left and right.
ConfusedOn(s) == s.confused /\ s.confusedToggle
ConfusedOff(s, t) ==
  s.confused /\ ~s.confusedToggle
             /\ t >= s.confusedAnimationTimer + s.confusedAnimationDuration
Confused(s, t) ==
  IF ConfusedOn(s)
    THEN [setHFlicker(s, TRUE, ConfusedAmplitude) EXCEPT
            !.confusedAnimationTimer = t, !.confusedToggle = FALSE]
  ELSE IF ConfusedOff(s, t)
    THEN [setHFlicker(s, FALSE, 0) EXCEPT
            !.confusedToggle = TRUE, !.confused = FALSE]
  ELSE s

\* Idle: eyes moving to random positions.  The three randint calls run in
\* order; one whose upper end is negative raises and the rest is not done.
IdleDue(s, t) == s.idle /\ t >= s.idleAnimationTimer
IdleRaises(s, t) ==
  IdleDue(s, t) /\ \/ getScreenConstraint_X(s) < 0
                   \/ getScreenConstraint_Y(s) < 0
                   \/ s.idleIntervalVariation < 0
Idle(s, t, kx, ky, k) ==
  IF ~IdleDue(s, t) THEN s
  ELSE IF getScreenConstraint_X(s) < 0 THEN s
  ELSE LET s1 == [s EXCEPT !.eyeLxNext =
                      RandInt(0, getScreenConstraint_X(s), kx)]
       IN IF getScreenConstraint_Y(s) < 0 THEN s1
          ELSE LET s2 == [s1 EXCEPT !.eyeLyNext =
                             RandInt(0, getScreenConstraint_Y(s), ky)]
               IN IF s.idleIntervalVariation < 0 THEN s2
                  ELSE [s2 EXCEPT !.idleAnimationTimer =
                          t + s.idleInterval * 1000
                            + RandInt(0, s.idleIntervalVariation, k) * 1000]

\* A flicker that shakes the left eye only.
FlickerLeftOnly(s) ==
  LET dx == IF s.hFlickerAlternate THEN s.hFlickerAmplitude
                                   ELSE -s.hFlickerAmplitude
      dy == IF s.vFlickerAlternate THEN s.vFlickerAmplitude
                                   ELSE -s.vFlickerAmplitude
      s1 == IF s.hFlicker
              THEN [s EXCEPT !.eyeLx = @ + dx, !.hFlickerAlternate = ~@]
              ELSE s
  IN IF s1.vFlicker
       THEN [s1 EXCEPT !.eyeLy = @ + dy, !.vFlickerAlternate = ~@]
       ELSE s1

\* Offsets for horizontal and vertical flickering.
Flicker(s) ==
  LET dx == IF s.hFlickerAlternate THEN s.hFlickerAmplitude
                                   ELSE -s.hFlickerAmplitude
      dy == IF s.vFlickerAlternate THEN s.vFlickerAmplitude
                                   ELSE -s.vFlickerAmplitude
      s1 == IF s.hFlicker
              THEN [s EXCEPT !.eyeLx = @ + dx, !.eyeRx = @ + dx,
                             !.hFlickerAlternate = ~@]
              ELSE s
  IN IF s1.vFlicker
       THEN [s1 EXCEPT !.eyeLy = @ + dy, !.eyeRy = @ + dy,
                       !.vFlickerAlternate = ~@]
       ELSE s1

\* A cyclops mode that takes the width of both eyes.
CyclopsBoth(s) ==
  IF s.cyclops
    THEN [s EXCEPT !.eyeRwidthCurrent = 0, !.eyeRheightCurrent = 0,
                   !.spaceBetweenCurrent = 0, !.eyeLwidthCurrent = 0]
    ELSE s

\* A cyclops mode that collapses the targets with the current values.
CyclopsTargets(s) ==
  IF s.cyclops
    THEN [s EXCEPT !.eyeRwidthCurrent = 0, !.eyeRheightCurrent = 0,
                   !.spaceBetweenCurrent = 0, !.eyeRwidthNext = 0,
                   !.eyeRheightNext = 0, !.spaceBetweenNext = 0]
    ELSE s

\* Cyclops mode: the second eye's size and the space between are set to 0.
Cyclops(s) ==
  IF s.cyclops
    THEN [s EXCEPT !.eyeRwidthCurrent = 0, !.eyeRheightCurrent = 0,
                   !.spaceBetweenCurrent = 0]
    ELSE s

\* Mood targets that are set when a mood is on and never reset.
MoodTargetsKept(s) ==
  LET half == s.eyeLheightCurrent \div 2
  IN [s EXCEPT
        !.eyelidsTiredHeightNext = IF s.tired THEN half ELSE @,
        !.eyelidsAngryHeightNext = IF s.angry THEN half ELSE @,
        !.eyelidsHappyBottomOffsetNext = IF s.happy THEN half ELSE @]

\* Mood targets taken from the right eye's height.
MoodTargetsRight(s) ==
  LET half == s.eyeRheightCurrent \div 2
      tiredN1 == IF s.tired THEN half ELSE 0
      angryN2 == IF s.angry THEN half ELSE 0
      tiredN2 == IF s.angry THEN 0 ELSE tiredN1
  IN [s EXCEPT
        !.eyelidsTiredHeightNext = tiredN2,
        !.eyelidsAngryHeightNext = angryN2,
        !.eyelidsHappyBottomOffsetNext = IF s.happy THEN half ELSE 0]

\* Prepare mood type transitions.
MoodTargets(s) ==
  LET half == s.eyeLheightCurrent \div 2
      tiredN1 == IF s.tired THEN half ELSE 0
      angryN1 == IF s.tired THEN 0 ELSE s.eyelidsAngryHeightNext
      angryN2 == IF s.angry THEN half ELSE 0
      tiredN2 == IF s.angry THEN 0 ELSE tiredN1
  IN [s EXCEPT
        !.eyelidsTiredHeightNext = tiredN2,
        !.eyelidsAngryHeightNext = angryN2,
        !.eyelidsHappyBottomOffsetNext = IF s.happy THEN half ELSE 0]

\* The eyelid overlays tween like geometry.
TweenEyelids(s) ==
  [s EXCEPT
     !.eyelidsTiredHeight = Tween(@, s.eyelidsTiredHeightNext),
     !.eyelidsAngryHeight = Tween(@, s.eyelidsAngryHeightNext),
     !.eyelidsHappyBottomOffset = Tween(@, s.eyelidsHappyBottomOffsetNext)]

\* The state before the macro animations, and after each of them.
Tweened(s) == TweenGeometry(Reopen(TweenHeights(CuriousGaze(s))))
Blinked(s, t, k) == AutoBlink(Tweened(s), t, k)
Shaken(s, t, k) == Confused(Laugh(Blinked(s, t, k), t), t)

\* Whether drawEyes ends in a ValueError, and the fields it leaves then.
drawRaises(s, t, k) ==
  BlinkRaises(Tweened(s), t) \/ IdleRaises(Shaken(s, t, k), t)

drawEyes(s, t, kb, kx, ky, ki) ==
  IF BlinkRaises(Tweened(s), t) THEN Blinked(s, t, kb)
  ELSE IF IdleRaises(Shaken(s, t, kb), t)
    THEN Idle(Shaken(s, t, kb), t, kx, ky, ki)
  ELSE TweenEyelids(MoodTargets(Cyclops(Flicker(
         Idle(Shaken(s, t, kb), t, kx, ky, ki)))))

\* What a tick at time t fires, for the history.
Fired(s, t, kb) ==
  LET a == Tweened(s)
      b == Blinked(s, t, kb)
      c == Laugh(b, t)
      d == Confused(c, t)
  IN     (IF BlinkDue(a, t) THEN {"blink"} ELSE {})
    \cup (IF BlinkRaises(a, t) THEN {} ELSE
            (IF LaughOn(b) THEN {"laughOn"} ELSE {})
       \cup (IF ~LaughOn(b) /\ LaughOff(b, t) THEN {"laughOff"} ELSE {})
       \cup (IF ConfusedOn(c) THEN {"confusedOn"} ELSE {})
       \cup (IF ~ConfusedOn(c) /\ ConfusedOff(c, t) THEN {"confusedOff"} ELSE {})
       \cup (IF IdleDue(d, t) THEN {"idle"} ELSE {}))

(***************************************************************************)
(* src/eye.py: drawEyes() of the second script.  Its curious gaze, re-open *)
(* rule, auto blink, idle move, flicker, cyclops collapse and mood targets *)
(* are the statements of src/gifeye.py; its tweens divide with // and the  *)
(* end of its one-shot animations calls setHFlicker(False) and             *)
(* setVFlicker(False) with the default amplitudes and leaves the toggles.  *)
(***************************************************************************)
eye_TweenHeights(s) ==
  LET hL == FloorHalf(s.eyeLheightCurrent + s.eyeLheightNext + s.eyeLheightOffset)
      hR == FloorHalf(s.eyeRheightCurrent + s.eyeRheightNext + s.eyeRheightOffset)
  IN [s EXCEPT
        !.eyeLheightCurrent = hL,
        !.eyeLy = s.eyeLy + (((s.eyeLheightDefault - hL) \div 2)
                               - (s.eyeLheightOffset \div 2)),
        !.eyeRheightCurrent = hR,
        !.eyeRy = s.eyeRy + (((s.eyeRheightDefault - hR) \div 2)
                               - (s.eyeRheightOffset \div 2))]

eye_TweenGeometry(s) ==
  LET wL == FloorHalf(s.eyeLwidthCurrent + s.eyeLwidthNext)
      wR == FloorHalf(s.eyeRwidthCurrent + s.eyeRwidthNext)
      gap == FloorHalf(s.spaceBetweenCurrent + s.spaceBetweenNext)
      rxN == s.eyeLxNext + wL + gap
      ryN == s.eyeLyNext
  IN [s EXCEPT
        !.eyeLwidthCurrent = wL,
        !.eyeRwidthCurrent = wR,
        !.spaceBetweenCurrent = gap,
        !.eyeLx = FloorHalf(s.eyeLx + s.eyeLxNext),
        !.eyeLy = FloorHalf(s.eyeLy + s.eyeLyNext),
        !.eyeRxNext = rxN,
        !.eyeRyNext = ryN,
        !.eyeRx = FloorHalf(s.eyeRx + rxN),
        !.eyeRy = FloorHalf(s.eyeRy + ryN),
        !.eyeLborderRadiusCurrent =
           FloorHalf(s.eyeLborderRadiusCurrent + s.eyeLborderRadiusNext),
        !.eyeRborderRadiusCurrent =
           FloorHalf(s.eyeRborderRadiusCurrent + s.eyeRborderRadiusNext)]

eye_Laugh(s, t) ==
  IF s.laugh /\ s.laughToggle
    THEN [setVFlicker(s, TRUE, LaughAmplitude) EXCEPT
            !.laughAnimationTimer = t, !.laughToggle = FALSE]
  ELSE IF s.laugh /\ t >= s.laughAnimationTimer + s.laughAnimationDuration
    THEN [setVFlicker(s, FALSE, 10) EXCEPT !.laugh = FALSE]
  ELSE s

eye_Confused(s, t) ==
  IF s.confused /\ s.confusedToggle
    THEN [setHFlicker(s, TRUE, ConfusedAmplitude) EXCEPT
            !.confusedAnimationTimer = t, !.confusedToggle = FALSE]
  ELSE IF s.confused
          /\ t >= s.confusedAnimationTimer + s.confusedAnimationDuration
    THEN [setHFlicker(s, FALSE, 2) EXCEPT !.confused = FALSE]
  ELSE s

eye_TweenEyelids(s) ==
  [s EXCEPT
     !.eyelidsTiredHeight = FloorHalf(@ + s.eyelidsTiredHeightNext),
     !.eyelidsAngryHeight = FloorHalf(@ + s.eyelidsAngryHeightNext),
     !.eyelidsHappyBottomOffset =
        FloorHalf(@ + s.eyelidsHappyBottomOffsetNext)]

eye_Tweened(s) == eye_TweenGeometry(Reopen(eye_TweenHeights(CuriousGaze(s))))
eye_Shaken(s, t, k) ==
  eye_Confused(eye_Laugh(AutoBlink(eye_Tweened(s), t, k), t), t)
eye_drawRaises(s, t, k) ==
  BlinkRaises(eye_Tweened(s), t) \/ IdleRaises(eye_Shaken(s, t, k), t)
eye_drawEyes(s, t, kb, kx, ky, ki) ==
  IF BlinkRaises(eye_Tweened(s), t) THEN AutoBlink(eye_Tweened(s), t, kb)
  ELSE IF IdleRaises(eye_Shaken(s, t, kb), t)
    THEN Idle(eye_Shaken(s, t, kb), t, kx, ky, ki)
  ELSE eye_TweenEyelids(MoodTargets(Cyclops(Flicker(
         Idle(eye_Shaken(s, t, kb), t, kx, ky, ki)))))

(***************************************************************************)
(* Operations.  A caller call records itself and the fields before it; the *)
(* program has ended once an exception has left drawEyes or a setter.      *)
(***************************************************************************)
Running == ~obs.raised

Called(op, args, s) ==
  /\ Running
  /\ eyes' = s
  /\ now' = now
  /\ obs' = [obs EXCEPT !.last = op, !.call = [op |-> op, args |-> args],
                        !.pre = eyes, !.quiet = 0, !.calls = @ + 1,
                        !.fired = {}]

SetFramerate(fps) ==
  /\ Running
  /\ eyes' = setFramerate(eyes, fps)
  /\ now' = now
  /\ obs' = [obs EXCEPT !.last = "setFramerate",
                        !.call = [op |-> "setFramerate", args |-> <<fps>>],
                        !.pre = eyes, !.quiet = 0, !.calls = @ + 1,
                        !.fired = {}, !.raised = (fps = 0)]

SetWidth(l, r) == Called("setWidth", <<l, r>>, setWidth(eyes, l, r))

SetHeight(l, r) == Called("setHeight", <<l, r>>, setHeight(eyes, l, r))

SetBorderradius(l, r) ==
  Called("setBorderradius", <<l, r>>, setBorderradius(eyes, l, r))

SetSpacebetween(g) == Called("setSpacebetween", <<g>>, setSpacebetween(eyes, g))

SetMood(m) == Called("setMood", <<m>>, setMood(eyes, m))

SetPosition(p) == Called("setPosition", <<p>>, setPosition(eyes, p))

SetAutoblinker(a, i, v) ==
  \E k \in Picks :
    /\ Running
    /\ eyes' = setAutoblinker(eyes, now, a, i, v, k)
    /\ now' = now
    /\ obs' = [obs EXCEPT !.last = "setAutoblinker",
                          !.call = [op |-> "setAutoblinker", args |-> <<a, i, v>>],
                          !.pre = eyes, !.quiet = 0, !.calls = @ + 1,
                          !.fired = {}, !.raised = (a /\ v < 0),
                          !.blinkSetAt = IF a THEN now ELSE @]

SetIdleMode(a, i, v) ==
  \E k \in Picks :
    /\ Running
    /\ eyes' = setIdleMode(eyes, now, a, i, v, k)
    /\ now' = now
    /\ obs' = [obs EXCEPT !.last = "setIdleMode",
                          !.call = [op |-> "setIdleMode", args |-> <<a, i, v>>],
                          !.pre = eyes, !.quiet = 0, !.calls = @ + 1,
                          !.fired = {}, !.raised = (a /\ v < 0)]

SetCuriosity(b) == Called("setCuriosity", <<b>>, setCuriosity(eyes, b))

SetCyclops(b) == Called("setCyclops", <<b>>, setCyclops(eyes, b))

SetHFlicker(b, a) == Called("setHFlicker", <<b, a>>, setHFlicker(eyes, b, a))

SetVFlicker(b, a) == Called("setVFlicker", <<b, a>>, setVFlicker(eyes, b, a))

Close(l, r) == Called("close", <<l, r>>, close(eyes, l, r))

Blink(l, r) == Called("blink", <<l, r>>, blink(eyes, l, r))

Open(l, r) ==
  /\ Running
  /\ eyes' = open(eyes, l, r)
  /\ now' = now
  /\ obs' = [obs EXCEPT !.last = "open",
                        !.call = [op |-> "open", args |-> <<l, r>>],
                        !.pre = eyes, !.quiet = 0, !.calls = @ + 1,
                        !.fired = {},
                        !.everOpenL = @ \/ l, !.everOpenR = @ \/ r]

AnimConfused ==
  /\ Running
  /\ eyes' = anim_confused(eyes)
  /\ now' = now
  /\ obs' = [obs EXCEPT !.last = "anim_confused",
                        !.call = [op |-> "anim_confused", args |-> <<>>],
                        !.pre = eyes, !.quiet = 0, !.calls = @ + 1,
                        !.fired = {},
                        !.confusedAt = now, !.confusedOnAt = -1,
                        !.confusedOffAt = -1]

AnimLaugh ==
  /\ Running
  /\ eyes' = anim_laugh(eyes)
  /\ now' = now
  /\ obs' = [obs EXCEPT !.last = "anim_laugh",
                        !.call = [op |-> "anim_laugh", args |-> <<>>],
                        !.pre = eyes, !.quiet = 0, !.calls = @ + 1,
                        !.fired = {},
                        !.laughAt = now, !.laughOnAt = -1,
                        !.laughOffAt = -1]

\* update(): drawEyes() when a frame interval has passed since the last one.
Due == now - eyes.fpsTimer >= eyes.frameInterval

\* An update() that draws whether or not the frame interval has passed.
updateEager(s, t, kb, kx, ky, ki) ==
  IF drawRaises(s, t, kb)
    THEN drawEyes(s, t, kb, kx, ky, ki)
    ELSE [drawEyes(s, t, kb, kx, ky, ki) EXCEPT !.fpsTimer = t]

update(s, t, kb, kx, ky, ki) ==
  IF t - s.fpsTimer >= s.frameInterval
    THEN IF drawRaises(s, t, kb)
           THEN drawEyes(s, t, kb, kx, ky, ki)
           ELSE [drawEyes(s, t, kb, kx, ky, ki) EXCEPT !.fpsTimer = t]
    ELSE s

\* A tick: update() at a time when a frame is due.
Tick ==
  /\ Running
  /\ Due
  /\ \E kb \in (IF BlinkDue(Tweened(eyes), now) THEN Picks ELSE {0}) :
       \E kx, ky, ki \in (IF IdleDue(Shaken(eyes, now, kb), now)
                            THEN Picks ELSE {0}) :
         LET s == update(eyes, now, kb, kx, ky, ki)
         IN /\ eyes' = s
            /\ obs' = [obs EXCEPT
                 !.last = "tick",
                 !.quiet = @ + 1,
                 !.fired = Fired(eyes, now, kb),
                 !.raised = drawRaises(eyes, now, kb),
                 !.confusedOnAt =
                    IF eyes.confused /\ eyes.confusedToggle /\ ~s.confusedToggle
                      THEN now ELSE @,
                 !.laughOnAt =
                    IF eyes.laugh /\ eyes.laughToggle /\ ~s.laughToggle
                      THEN now ELSE @,
                 !.confusedOffAt =
                    IF eyes.confused /\ ~s.confused THEN now ELSE @,
                 !.laughOffAt =
                    IF eyes.laugh /\ ~s.laugh THEN now ELSE @,
                 !.blinkAt =
                    IF BlinkDue(Tweened(eyes), now) THEN now ELSE @]
  /\ now' = now

\* update() before the frame interval has passed.
Skip ==
  /\ Running
  /\ ~Due
  /\ eyes' = update(eyes, now, 0, 0, 0, 0)
  /\ now' = now
  /\ obs' = [obs EXCEPT !.last = "skip", !.fired = {}]

\* The clock moves on by d milliseconds.
Advance(d) ==
  /\ Running
  /\ d > 0
  /\ now' = now + d
  /\ UNCHANGED eyes
  /\ obs' = [obs EXCEPT !.last = "advance"]

(***************************************************************************)
(* Specifications.  The frame loop: the clock moves one frame interval on  *)
(* when no frame is due, and a due frame is drawn before it moves again.   *)
(***************************************************************************)
\* A caller calls promptly after its last call or once the animation has
\* settled (q ticks after), and a bounded number of times.
MayCallAt(q) ==
  /\ obs.calls < MaxCalls
  /\ obs.quiet <= CallWindow \/ obs.quiet = q
MayCall == MayCallAt(MaxQuiet)
MayTick == obs.quiet < MaxQuiet
Frame == ~Due /\ Advance(eyes.frameInterval)

\* Sizes, gaps and radii a caller sets: below, at and above the defaults,
\* zero and negative.
WidthArgs == {<<20, 41>>, <<41, 36>>, <<0, 20>>}
GapArgs == {-5, 0, 15}
RadiusArgs == {0, 11}

\* Tweening of width, gap and border radius under their setters.
TweenNext ==
  \/ MayTick /\ Tick
  \/ MayTick /\ Frame
  \/ MayCall /\ \E a \in WidthArgs : SetWidth(a[1], a[2])
  \/ MayCall /\ \E g \in GapArgs : SetSpacebetween(g)
  \/ MayCall /\ \E r \in RadiusArgs : SetBorderradius(r, r)

SpecTween == Init /\ [][TweenNext]_vars

\* Eyes to select, heights to set.
EyeArgs == {<<TRUE, TRUE>>, <<TRUE, FALSE>>, <<FALSE, TRUE>>}
HeightArgs == {<<32, 17>>, <<1, 40>>}

\* Opening, closing and blinking, with cyclops mode and other eye heights.
BlinkNext ==
  \/ MayTick /\ Tick
  \/ MayTick /\ Frame
  \/ MayCall /\ \E a \in EyeArgs : Open(a[1], a[2])
  \/ MayCall /\ \E a \in EyeArgs : Close(a[1], a[2])
  \/ MayCall /\ \E a \in EyeArgs : Blink(a[1], a[2])
  \/ MayCall /\ \E b \in BOOLEAN : SetCyclops(b)
  \/ MayCall /\ \E a \in HeightArgs : SetHeight(a[1], a[2])

SpecBlink == Init /\ [][BlinkNext]_vars

Moods == {DEFAULT, TIRED, ANGRY, HAPPY}

\* Moods over eyes that open, close and blink.
MoodNext ==
  \/ MayTick /\ Tick
  \/ MayTick /\ Frame
  \/ MayCall /\ \E m \in Moods : SetMood(m)
  \/ MayCall /\ Close(TRUE, TRUE)
  \/ MayCall /\ Open(TRUE, TRUE)

SpecMood == Init /\ [][MoodNext]_vars

PositionArgs == {SE, NW}
GeomGapArgs == {-5, 15}

\* Geometry: sizes, gap, positions, cyclops mode and idle moves (due in every
\* frame, turned on by the last call), over a few frames.
GeomNext ==
  \/ obs.quiet < GeomQuiet /\ Tick
  \/ obs.quiet < GeomQuiet /\ Frame
  \/ MayCallAt(GeomQuiet) /\ SetWidth(20, 41)
  \/ MayCallAt(GeomQuiet) /\ \E g \in GeomGapArgs : SetSpacebetween(g)
  \/ MayCallAt(GeomQuiet) /\ \E p \in PositionArgs : SetPosition(p)
  \/ MayCallAt(GeomQuiet) /\ \E b \in BOOLEAN : SetCyclops(b)
  \/ MayCallAt(GeomQuiet) /\ obs.calls = MaxCalls - 1 /\ SetIdleMode(TRUE, 0, 0)

SpecGeom == Init /\ [][GeomNext]_vars

\* One-shot animations: anim_confused and anim_laugh are called once each at
\* any millisecond of the first frames, at the default frame rate or at 30
\* frames per second, and a frame is drawn every frame interval.
SlowFps == 30
OneShotNext ==
  \/ Tick
  \/ ~Due /\ now < FineTime /\ Advance(1)
  \/ /\ ~Due /\ now >= FineTime /\ now < MaxTime
     /\ Advance(eyes.fpsTimer + eyes.frameInterval - now)
  \/ now = 0 /\ obs.calls = 0 /\ SetFramerate(SlowFps)
  \/ now <= FineTime /\ obs.confusedAt < 0 /\ AnimConfused
  \/ now <= FineTime /\ obs.laughAt < 0 /\ AnimLaugh

SpecOneShot == Init /\ [][OneShotNext]_vars

\* One-shot animations with the main loop running (gifeye.py:659-698 calls
\* update() and sleeps in an endless loop): a due frame is eventually drawn
\* and the clock eventually moves on to the next frame.  anim_confused and
\* anim_laugh are called once each between the first frames.
LiveCallTime == 60
OneShotFrame == ~Due /\ now < MaxTime /\ Frame
OneShotLiveNext ==
  \/ Tick
  \/ OneShotFrame
  \/ now = 0 /\ obs.calls = 0 /\ SetFramerate(SlowFps)
  \/ now <= LiveCallTime /\ obs.confusedAt < 0 /\ AnimConfused
  \/ now <= LiveCallTime /\ obs.laughAt < 0 /\ AnimLaugh

\* Weak fairness of Tick, WF_vars(Tick), with ENABLED <<Tick>>_vars written
\* out: a tick can be taken exactly when the program runs and a frame is
\* due, and it always changes the state (it counts itself in obs.quiet).
TickFair == []<>~(Running /\ Due) \/ []<><<Tick>>_vars

SpecOneShotLive ==
  Init /\ [][OneShotLiveNext]_vars /\ TickFair /\ WF_vars(OneShotFrame)

\* Curious gaze: curious and cyclops mode are turned on and off, the eyes are
\* sent to a corner or made wider than the screen, and the eyes are closed,
\* in up to three calls with a few frames between and after them.
CuriousCalls == 3
CuriousQuiet == 3
CuriousMayCall ==
  /\ obs.calls < CuriousCalls
  /\ obs.quiet <= CallWindow \/ obs.quiet = CuriousQuiet
CuriousNext ==
  \/ obs.quiet < CuriousQuiet /\ Tick
  \/ obs.quiet < CuriousQuiet /\ Frame
  \/ CuriousMayCall /\ \E b \in BOOLEAN : SetCuriosity(b)
  \/ CuriousMayCall /\ \E b \in BOOLEAN : SetCyclops(b)
  \/ CuriousMayCall /\ \E p \in PositionArgs : SetPosition(p)
  \/ CuriousMayCall /\ SetWidth(100, 100)
  \/ CuriousMayCall /\ Close(TRUE, TRUE)

SpecCurious == Init /\ [][CuriousNext]_vars

\* One-shot animations over a caller's flicker: set_h_flicker and
\* set_v_flicker are called before the animation they share a flag with is
\* triggered, and the frames run until the animations have ended.
FlickerArgs == {2, 7}
OverrideNext ==
  \/ Tick
  \/ OneShotFrame
  \/ /\ now <= LiveCallTime /\ obs.confusedAt < 0 /\ ~eyes.hFlicker
     /\ \E a \in FlickerArgs : SetHFlicker(TRUE, a)
  \/ /\ now <= LiveCallTime /\ obs.laughAt < 0 /\ ~eyes.vFlicker
     /\ \E a \in FlickerArgs : SetVFlicker(TRUE, a)
  \/ now <= LiveCallTime /\ obs.confusedAt < 0 /\ AnimConfused
  \/ now <= LiveCallTime /\ obs.laughAt < 0 /\ AnimLaugh

SpecOverride == Init /\ [][OverrideNext]_vars

\* One-shot animations triggered again: anim_confused and anim_laugh are
\* called up to three times in all, a multiple of five frames apart, also while
\* the animation runs, and the frames run until the animations have ended.
RetriggerCalls == 3
RetriggerFrames == 5
RetriggerTime == 800
RetriggerMaxTime == 1400
RetriggerMayCall ==
  /\ obs.calls < RetriggerCalls
  /\ now <= RetriggerTime
  /\ now % (RetriggerFrames * eyes.frameInterval) = 0
  /\ obs.last # "anim_confused" /\ obs.last # "anim_laugh"
RetriggerNext ==
  \/ Tick
  \/ ~Due /\ now < RetriggerMaxTime /\ Frame
  \/ RetriggerMayCall /\ AnimConfused
  \/ RetriggerMayCall /\ AnimLaugh

SpecRetrigger == Init /\ [][RetriggerNext]_vars

\* Eye heights: the heights are set, if at all, on the constructed object
\* before its first frame; then the eyes are opened, closed and blinked, made
\* curious and sent to a corner, or put in cyclops mode for good, in up to
\* three calls with frames between and after them.
HeightCalls == 3
HeightQuiet == 7
HeightMayCall ==
  /\ obs.calls < HeightCalls
  /\ obs.quiet <= CallWindow \/ obs.quiet = HeightQuiet
HeightNext ==
  \/ obs.quiet < HeightQuiet /\ Tick
  \/ obs.quiet < HeightQuiet /\ Frame
  \/ obs.last = "init" /\ \E a \in HeightArgs : SetHeight(a[1], a[2])
  \/ HeightMayCall /\ SetCuriosity(TRUE)
  \/ HeightMayCall /\ \E p \in PositionArgs : SetPosition(p)
  \/ HeightMayCall /\ Open(TRUE, TRUE)
  \/ HeightMayCall /\ Close(TRUE, TRUE)
  \/ HeightMayCall /\ Blink(TRUE, FALSE)
  \/ HeightMayCall /\ SetCyclops(TRUE)

SpecHeight == Init /\ [][HeightNext]_vars

\* Positions: the eyes are opened or closed and sent to any of the nine
\* predefined positions.
Positions == {DEFAULT, N, NE, E, SE, S, SW, W, NW}
PositionNext ==
  \/ MayTick /\ Tick
  \/ MayTick /\ Frame
  \/ MayCall /\ Open(TRUE, TRUE)
  \/ MayCall /\ Close(TRUE, TRUE)
  \/ MayCall /\ \E p \in Positions : SetPosition(p)

SpecPosition == Init /\ [][PositionNext]_vars

\* Vertical centring: the eyes are closed or opened, sent to a corner, made
\* taller than the screen or put in cyclops mode, and then left to settle.
CentreSettleTicks == 14
CentreNext ==
  \/ MayTick /\ Tick
  \/ MayTick /\ Frame
  \/ MayCall /\ Open(TRUE, TRUE)
  \/ MayCall /\ Close(TRUE, TRUE)
  \/ MayCall /\ \E p \in PositionArgs : SetPosition(p)
  \/ MayCall /\ SetHeight(70, 70)
  \/ MayCall /\ SetCyclops(TRUE)

SpecCentre == Init /\ [][CentreNext]_vars

\* Every operation of the class: each setter and control with values below,
\* at and above the defaults, wider and taller than the screen, and outside
\* the mood and position constants; idle moves that are due in every frame
\* are turned on by the last call.
FpsArgs == {0, SlowFps}
WideArgs == {<<100, 100>>, <<20, 41>>}
TallArgs == {<<70, 70>>, <<32, 17>>}
InvalidMood == 7
InvalidPosition == 9
MoodArgs == Moods \cup {InvalidMood}
AnyPositionArgs == {NW, SE, InvalidPosition}
AllNext ==
  \/ obs.quiet < AllQuiet /\ Tick
  \/ obs.quiet < AllQuiet /\ Frame
  \/ obs.quiet < AllQuiet /\ Skip
  \/ MayCallAt(AllQuiet) /\ \E f \in FpsArgs : SetFramerate(f)
  \/ MayCallAt(AllQuiet) /\ \E a \in WideArgs : SetWidth(a[1], a[2])
  \/ MayCallAt(AllQuiet) /\ \E a \in TallArgs : SetHeight(a[1], a[2])
  \/ MayCallAt(AllQuiet) /\ SetBorderradius(0, 11)
  \/ MayCallAt(AllQuiet) /\ \E g \in GeomGapArgs : SetSpacebetween(g)
  \/ MayCallAt(AllQuiet) /\ \E m \in MoodArgs : SetMood(m)
  \/ MayCallAt(AllQuiet) /\ \E p \in AnyPositionArgs : SetPosition(p)
  \/ MayCallAt(AllQuiet) /\ \E b \in BOOLEAN : SetAutoblinker(b, 0, 0)
  \/ MayCallAt(AllQuiet) /\ SetIdleMode(TRUE, 1, 0)
  \/ MayCallAt(AllQuiet) /\ obs.calls = MaxCalls - 1 /\ SetIdleMode(TRUE, 0, 0)
  \/ MayCallAt(AllQuiet) /\ \E b \in BOOLEAN : SetCuriosity(b)
  \/ MayCallAt(AllQuiet) /\ \E b \in BOOLEAN : SetCyclops(b)
  \/ MayCallAt(AllQuiet) /\ SetHFlicker(TRUE, 2)
  \/ MayCallAt(AllQuiet) /\ SetVFlicker(TRUE, 10)
  \/ MayCallAt(AllQuiet) /\ Open(TRUE, TRUE)
  \/ MayCallAt(AllQuiet) /\ Close(TRUE, TRUE)
  \/ MayCallAt(AllQuiet) /\ Blink(TRUE, TRUE)
  \/ MayCallAt(AllQuiet) /\ AnimConfused
  \/ MayCallAt(AllQuiet) /\ AnimLaugh

Spec == Init /\ [][AllNext]_vars

\* The clock: update() is called at any time, before and after a frame is
\* due, at the default and at a slower frame rate, while the eyes open, a
\* width is tweened or the confused animation runs.
ClockSteps == {7, 20}
ClockNext ==
  \/ Tick
  \/ Skip
  \/ \E d \in ClockSteps : now + d <= ClockMax /\ Advance(d)
  \/ obs.calls < MaxCalls /\ SetFramerate(SlowFps)
  \/ obs.calls < MaxCalls /\ SetWidth(20, 41)
  \/ obs.calls < MaxCalls /\ AnimConfused

SpecClock == Init /\ [][ClockNext]_vars

\* The auto blinker: switched on with an interval and a variation of 0 or 1
\* seconds, or off, in the first frames (where the first automatic blink
\* falls when the interval is 0); a frame is drawn every frame interval for
\* two seconds.
BlinkerArgs == {<<TRUE, 0, 1>>, <<TRUE, 1, 0>>, <<FALSE, 1, 0>>}
AutoNext ==
  \/ Tick
  \/ now < AutoMaxTime /\ Frame
  \/ /\ obs.calls < MaxCalls /\ now <= AutoCallTime
     /\ \E a \in BlinkerArgs : SetAutoblinker(a[1], a[2], a[3])

SpecAuto == Init /\ [][AutoNext]_vars

\* Targets over the default geometry: positions (also one that is no
\* position constant), idle moves that are due in every frame, opening,
\* closing and blinking, a mood and both flickers, in up to two calls at most
\* a frame apart and the frames after them; no size or gap setter and no
\* cyclops mode.
TargetQuiet == 2
TargetMayCall == obs.calls < MaxCalls /\ obs.quiet <= CallWindow
TargetNext ==
  \/ obs.quiet < TargetQuiet /\ Tick
  \/ obs.quiet < TargetQuiet /\ Frame
  \/ /\ TargetMayCall
     /\ \E p \in Positions \cup {InvalidPosition} : SetPosition(p)
  \/ TargetMayCall /\ SetIdleMode(TRUE, 0, 0)
  \/ TargetMayCall /\ Open(TRUE, TRUE)
  \/ TargetMayCall /\ Close(TRUE, TRUE)
  \/ TargetMayCall /\ Blink(TRUE, TRUE)
  \/ TargetMayCall /\ SetMood(ANGRY)
  \/ TargetMayCall /\ SetHFlicker(TRUE, 2)
  \/ TargetMayCall /\ SetVFlicker(TRUE, 10)

SpecTarget == Init /\ [][TargetNext]_vars

(***************************************************************************)
(* Claims                                                                  *)
(***************************************************************************)
\* The plainly tweened pairs: eye widths, gap between eyes, border radii.
PlainPairs == {"eyeLwidth", "eyeRwidth", "spaceBetween",
               "eyeLborderRadius", "eyeRborderRadius"}
Cur(s, f) == CASE f = "eyeLwidth" -> s.eyeLwidthCurrent
               [] f = "eyeRwidth" -> s.eyeRwidthCurrent
               [] f = "spaceBetween" -> s.spaceBetweenCurrent
               [] f = "eyeLborderRadius" -> s.eyeLborderRadiusCurrent
               [] OTHER -> s.eyeRborderRadiusCurrent
Nxt(s, f) == CASE f = "eyeLwidth" -> s.eyeLwidthNext
               [] f = "eyeRwidth" -> s.eyeRwidthNext
               [] f = "spaceBetween" -> s.spaceBetweenNext
               [] f = "eyeLborderRadius" -> s.eyeLborderRadiusNext
               [] OTHER -> s.eyeRborderRadiusNext
SameSide(c, c2, t) == (c <= t => c2 <= t) /\ (c >= t => c2 >= t)

\* C1: with its target held constant, every plainly tweened current value
\* equals its target once the tween has had its ticks (and stays equal), and
\* no tick takes a current value to the far side of its target.
C1_TweenReachesTarget ==
  /\ [](obs.quiet >= SettleTicks =>
          \A f \in PlainPairs : Cur(eyes, f) = Nxt(eyes, f))
  /\ [][obs'.last = "tick" =>
          \A f \in PlainPairs :
             Nxt(eyes', f) = Nxt(eyes, f) =>
               SameSide(Cur(eyes, f), Cur(eyes', f), Nxt(eyes, f))]_vars

LastOnL(op) == obs.call.op = op /\ obs.call.args[1]
LastOnR(op) == obs.call.op = op /\ obs.call.args[2]

\* C2: on the 128x64 screen with the default 36x36 eyes closed at start,
\* after open() the height of each eye runs 1, 18, 27, 31, 33, ... from
\* tick to tick, never decreases, and ends at 36 and stays there.
C2_OpenReaches36 ==
  /\ [](LastOnL("open") /\ LastOnR("open") /\ obs.pre = Constructed =>
          /\ obs.quiet <= 4 =>
               /\ eyes.eyeLheightCurrent = <<1, 18, 27, 31, 33>>[obs.quiet + 1]
               /\ eyes.eyeRheightCurrent = <<1, 18, 27, 31, 33>>[obs.quiet + 1]
          /\ obs.quiet >= SettleTicks =>
               eyes.eyeLheightCurrent = 36 /\ eyes.eyeRheightCurrent = 36)
  /\ [][LastOnL("open") /\ LastOnR("open") /\ obs.pre = Constructed
          /\ obs'.last = "tick" =>
            /\ eyes'.eyeLheightCurrent >= eyes.eyeLheightCurrent
            /\ eyes'.eyeRheightCurrent >= eyes.eyeRheightCurrent]_vars

\* C3: an eye that was opened with open() and is then closed by blink() or
\* close() is back at its default height once it has had the ticks to close
\* and to open again, with no further call.
C3_BlinkReopens ==
  /\ (LastOnL("blink") \/ LastOnL("close")) /\ obs.everOpenL
       /\ obs.quiet >= 2 * SettleTicks
       => eyes.eyeLheightCurrent = eyes.eyeLheightDefault
  /\ (LastOnR("blink") \/ LastOnR("close")) /\ obs.everOpenR
       /\ obs.quiet >= 2 * SettleTicks /\ ~eyes.cyclops
       => eyes.eyeRheightCurrent = eyes.eyeRheightDefault

\* close() was the last call, on an eye whose height was then between 1 and
\* its default, and curious mode is off.
ClosingL ==
  /\ LastOnL("close") /\ ~eyes.curious
  /\ 1 <= obs.pre.eyeLheightCurrent
  /\ obs.pre.eyeLheightCurrent <= obs.pre.eyeLheightDefault
ClosingR ==
  /\ LastOnR("close") /\ ~eyes.curious
  /\ 1 <= obs.pre.eyeRheightCurrent
  /\ obs.pre.eyeRheightCurrent <= obs.pre.eyeRheightDefault

\* The height h of an eye with default height d, quiet ticks after close():
\* closed within ceil(log2(d)) + 1 ticks (6 for 36), never below 1.
ClosesInTime(h, d) ==
  /\ h >= 1
  /\ obs.quiet >= CeilLog2(d) + 1 => h = 1
  /\ d = 36 /\ obs.quiet >= 6 => h = 1
Decreases(h, h2) == h2 <= h /\ (h > 1 => h2 < h)

\* C4 as claimed: after close() either eye's height decreases tick by tick
\* to exactly 1 within ceil(log2(height_default)) + 1 ticks and is never
\* below 1.
C4_CloseReachesOne ==
  /\ [](/\ ClosingL => ClosesInTime(eyes.eyeLheightCurrent, eyes.eyeLheightDefault)
        /\ ClosingR => ClosesInTime(eyes.eyeRheightCurrent, eyes.eyeRheightDefault))
  /\ [][obs'.last = "tick" =>
         /\ ClosingL => Decreases(eyes.eyeLheightCurrent, eyes'.eyeLheightCurrent)
         /\ ClosingR => Decreases(eyes.eyeRheightCurrent, eyes'.eyeRheightCurrent)]_vars

\* C4 as amended: the same for the left eye, and for the right eye while
\* cyclops mode is off (cyclops mode draws the right eye with height 0).
C4_CloseReachesOneUnlessCyclops ==
  /\ [](/\ ClosingL => ClosesInTime(eyes.eyeLheightCurrent, eyes.eyeLheightDefault)
        /\ ClosingR /\ ~eyes.cyclops =>
             ClosesInTime(eyes.eyeRheightCurrent, eyes.eyeRheightDefault))
  /\ [][obs'.last = "tick" =>
         /\ ClosingL => Decreases(eyes.eyeLheightCurrent, eyes'.eyeLheightCurrent)
         /\ ClosingR /\ ~eyes.cyclops =>
              Decreases(eyes.eyeRheightCurrent, eyes'.eyeRheightCurrent)]_vars

\* An open eye of height 35 has been closed and has reached height 1 on the
\* sixth tick, the right eye with it.
C4_Witness ==
  /\ ClosingL /\ ClosingR /\ ~eyes.cyclops
  /\ obs.pre.eyeLheightCurrent = 35 /\ obs.pre.eyeRheightCurrent = 35
  /\ obs.quiet = 6
  /\ eyes.eyeLheightCurrent = 1 /\ eyes.eyeRheightCurrent = 1

\* C5 as claimed: the tired and the angry eyelid overlay (current values)
\* are never both nonzero.
C5_TiredAngryNeverBoth ==
  eyes.eyelidsTiredHeight = 0 \/ eyes.eyelidsAngryHeight = 0

\* C5 as amended: the tired and the angry overlay targets are never both
\* nonzero, and in a tick the overlay of a mood that is off does not grow;
\* after a direct switch both current values are nonzero while one fades
\* out and the other fades in.
C5_TiredAngryTargetsNeverBoth ==
  /\ [](eyes.eyelidsTiredHeightNext = 0 \/ eyes.eyelidsAngryHeightNext = 0)
  /\ [][obs'.last = "tick" =>
         /\ ~eyes.tired => eyes'.eyelidsTiredHeight <= eyes.eyelidsTiredHeight
         /\ ~eyes.angry => eyes'.eyelidsAngryHeight <= eyes.eyelidsAngryHeight]_vars

\* A tick after a switch from tired to angry: the tired overlay still shows,
\* the angry one already does, and only the angry one has a target.
C5_Witness ==
  /\ obs.call = [op |-> "setMood", args |-> <<ANGRY>>]
  /\ obs.pre.tired /\ obs.last = "tick"
  /\ eyes.eyelidsTiredHeight > 0 /\ eyes.eyelidsAngryHeight > 0
  /\ eyes.eyelidsTiredHeightNext = 0 /\ eyes.eyelidsAngryHeightNext > 0

\* C6: after set_mood(happy), ticks and set_mood(none), the three eyelid
\* overlays are all 0 once the tween has had its ticks, and stay 0 while the
\* mood remains none (here for any mood that set_mood(none) ends).
C6_MoodNoneClearsOverlays ==
  obs.call = [op |-> "setMood", args |-> <<DEFAULT>>]
    /\ obs.quiet >= OverlaySettleTicks
  => /\ eyes.eyelidsTiredHeight = 0
     /\ eyes.eyelidsAngryHeight = 0
     /\ eyes.eyelidsHappyBottomOffset = 0

\* The happy overlay was as far up as it gets over a 35 px eye (16 px) when
\* set_mood(none) was called, and is 0 on the fifth tick after.
C6_Witness ==
  /\ obs.call = [op |-> "setMood", args |-> <<DEFAULT>>]
  /\ obs.pre.happy /\ obs.pre.eyelidsHappyBottomOffset = 16
  /\ obs.quiet = OverlaySettleTicks
  /\ eyes.eyelidsHappyBottomOffset = 0

EndsBy(a, d, lim) == d >= 0 => a + 500 <= d /\ d <= a + lim

\* C8 as stated: after anim_confused() at time a, with a frame every frame
\* interval and no second call, the tick that turns horizontal flicker off
\* and clears the confused flag comes at a time d with
\* a + 500 <= d <= a + 500 + frameInterval; the same for anim_laugh() and
\* vertical flicker.
C8_FlickerEndsWithinOneFrame ==
  /\ EndsBy(obs.confusedAt, obs.confusedOffAt, 500 + eyes.frameInterval)
  /\ EndsBy(obs.laughAt, obs.laughOffAt, 500 + eyes.frameInterval)

\* One animation's timing: it ends at least 500 ms after the call and less
\* than 500 ms plus two frame intervals after it, less than 500 ms plus one
\* frame interval after the tick that armed it, and within 500 ms plus one
\* frame interval of the call when the frame interval divides 500; until
\* then its flag stays set, and the clock has not passed the bound.
OneShotTiming(a, on, d, flag) ==
  LET fi == eyes.frameInterval
  IN /\ EndsBy(a, d, 500 + 2 * fi - 1)
     /\ d >= 0 => on >= a /\ on <= a + fi /\ d >= on + 500 /\ d < on + 500 + fi
     /\ d >= 0 /\ 500 % fi = 0 => d <= a + 500 + fi
     /\ a >= 0 /\ d < 0 => flag /\ now < a + 500 + 2 * fi
     /\ d >= 0 => ~flag

\* C8 as amended: after anim_confused() at time a, with a frame every frame
\* interval and no second call, the tick that turns horizontal flicker off
\* and clears the confused flag comes at a time d with
\* a + 500 <= d < a + 500 + 2 * frameInterval, less than 500 ms plus one frame
\* interval after the tick that turned the flicker on; that tick leaves the
\* flicker off.  The same for anim_laugh() and vertical flicker.
C8_FlickerEndsWithinTwoFrames ==
  /\ OneShotTiming(obs.confusedAt, obs.confusedOnAt, obs.confusedOffAt,
                   eyes.confused)
  /\ OneShotTiming(obs.laughAt, obs.laughOnAt, obs.laughOffAt, eyes.laugh)
  /\ obs.last = "tick" /\ obs.confusedOffAt = now => ~eyes.hFlicker
  /\ obs.last = "tick" /\ obs.laughOffAt = now => ~eyes.vFlicker

\* The confused animation has ended more than 500 ms plus one frame interval
\* after the call.
C8_Witness ==
  /\ obs.last = "tick" /\ obs.confusedOffAt = now
  /\ obs.confusedOffAt > obs.confusedAt + 500 + eyes.frameInterval
  /\ ~eyes.hFlicker /\ ~eyes.confused

\* C9 as stated: right after anim_confused() returns, before any tick,
\* horizontal flicker is on with amplitude 20; right after anim_laugh()
\* returns, vertical flicker is on with amplitude 5.
C9_FlickerOnAtReturn ==
  /\ obs.last = "anim_confused"
       => eyes.hFlicker /\ eyes.hFlickerAmplitude = ConfusedAmplitude
  /\ obs.last = "anim_laugh"
       => eyes.vFlicker /\ eyes.vFlickerAmplitude = LaughAmplitude

\* C9 as amended: anim_confused() only sets the confused flag and leaves the
\* horizontal flicker as it was; the first tick after the call turns the
\* flicker on with amplitude 20.  anim_laugh() likewise sets the laugh flag,
\* and the first tick after it turns vertical flicker on with amplitude 5.
C9_FlickerOnAtNextTick ==
  /\ obs.last = "anim_confused"
       => /\ eyes.confused /\ eyes.confusedToggle
          /\ eyes.hFlicker = obs.pre.hFlicker
          /\ eyes.hFlickerAmplitude = obs.pre.hFlickerAmplitude
  /\ obs.last = "anim_laugh"
       => /\ eyes.laugh /\ eyes.laughToggle
          /\ eyes.vFlicker = obs.pre.vFlicker
          /\ eyes.vFlickerAmplitude = obs.pre.vFlickerAmplitude
  /\ obs.last = "tick" /\ obs.quiet = 1 /\ obs.call.op = "anim_confused"
       => /\ obs.confusedOnAt = now
          /\ eyes.hFlicker /\ eyes.hFlickerAmplitude = ConfusedAmplitude
  /\ obs.last = "tick" /\ obs.quiet = 1 /\ obs.call.op = "anim_laugh"
       => /\ obs.laughOnAt = now
          /\ eyes.vFlicker /\ eyes.vFlickerAmplitude = LaughAmplitude

\* The first tick after anim_confused(), later than the call, has turned the
\* flicker on.
C9_Witness ==
  /\ obs.last = "tick" /\ obs.quiet = 1 /\ obs.call.op = "anim_confused"
  /\ obs.confusedAt < now /\ ~obs.pre.hFlicker
  /\ eyes.hFlicker /\ eyes.hFlickerAmplitude = ConfusedAmplitude

\* The default geometry (the screen is 128x64 throughout) and neither eye
\* closing.
DefaultGeometry ==
  /\ eyes.eyeLwidthCurrent = 36 /\ eyes.eyeRwidthCurrent = 36
  /\ eyes.eyeLheightDefault = 36 /\ eyes.eyeRheightDefault = 36
  /\ eyes.spaceBetweenCurrent = 10
EyesOpen ==
  /\ eyes.eyeLheightNext = eyes.eyeLheightDefault
  /\ eyes.eyeRheightNext = eyes.eyeRheightDefault

\* C10: on a 128x64 screen with the default geometry and the eyes open,
\* PosSettleTicks or more ticks after setPosition(NW) with no call since, the
\* left eye is at (0, 0) and the right eye at (46, 0), and they stay there.
C10_NWReachesCorner ==
  /\ obs.call.op = "setPosition" /\ obs.call.args[1] = NW
  /\ DefaultGeometry /\ EyesOpen
  /\ obs.quiet >= PosSettleTicks
  => /\ eyes.eyeLx = 0 /\ eyes.eyeLy = 0
     /\ eyes.eyeRx = 46 /\ eyes.eyeRy = 0

\* The eyes have come from the bottom right corner to the top left and have
\* been there for the last ticks.
C10_Witness ==
  /\ obs.call.op = "setPosition" /\ obs.call.args[1] = NW
  /\ obs.pre.eyeLxNext = 46 /\ obs.pre.eyeLyNext = 28
  /\ DefaultGeometry /\ EyesOpen
  /\ obs.quiet = MaxQuiet /\ obs.last = "tick"
  /\ eyes.eyeLx = 0 /\ eyes.eyeLy = 0 /\ eyes.eyeRx = 46 /\ eyes.eyeRy = 0

\* The mood flags of a state, and the flags that stand for mood m.
MoodFlags(s) == <<s.tired, s.angry, s.happy>>
FlagsOf(m) == <<m = TIRED, m = ANGRY, m = HAPPY>>

\* C11: at most one of the mood flags tired, angry, happy is set; setMood(m)
\* for tired, angry or happy sets exactly flag m, setMood(DEFAULT) clears all
\* three, and no other operation (tick, setter, control) changes a mood flag.
C11_OneMoodAtATime ==
  /\ [](/\ ~(eyes.tired /\ eyes.angry)
        /\ ~(eyes.tired /\ eyes.happy)
        /\ ~(eyes.angry /\ eyes.happy)
        /\ obs.last = "setMood" /\ obs.call.args[1] \in Moods
             => MoodFlags(eyes) = FlagsOf(obs.call.args[1]))
  /\ [][obs'.last # "setMood" => MoodFlags(eyes') = MoodFlags(eyes)]_vars

\* A tick after a switch from tired to angry: only the angry flag is set.
C11_Witness ==
  /\ obs.last = "tick" /\ obs.call.op = "setMood" /\ obs.call.args[1] = ANGRY
  /\ obs.pre.tired
  /\ eyes.angry /\ ~eyes.tired /\ ~eyes.happy

\* C12: update() called before a frame interval has passed since the last
\* drawn frame changes no field of the object (current values, targets,
\* timers, flags, flicker parity, fpsTimer); a drawn frame leaves its time in
\* fpsTimer, so two frames that change the state are at least one frame
\* interval apart.
C12_EarlyUpdateIsNoOp ==
  /\ [](obs.last = "tick" /\ ~obs.raised => eyes.fpsTimer = now)
  /\ [][/\ obs'.last = "skip" => eyes' = eyes
        /\ obs'.last = "tick" /\ eyes' # eyes
             => now - eyes.fpsTimer >= eyes.frameInterval]_vars

\* update() was called between two frames while the eyes were still opening.
C12_Witness ==
  /\ obs.last = "skip"
  /\ eyes.fpsTimer > 0 /\ now > eyes.fpsTimer
  /\ now - eyes.fpsTimer < eyes.frameInterval
  /\ eyes.eyeLheightCurrent < eyes.eyeLheightNext - 1

\* The current values of a state: what is drawn of the eyes.
Currents(s) ==
  << s.eyeLwidthCurrent, s.eyeRwidthCurrent,
     s.eyeLheightCurrent, s.eyeRheightCurrent,
     s.eyeLborderRadiusCurrent, s.eyeRborderRadiusCurrent,
     s.spaceBetweenCurrent,
     s.eyeLx, s.eyeLy, s.eyeRx, s.eyeRy,
     s.eyelidsTiredHeight, s.eyelidsAngryHeight, s.eyelidsHappyBottomOffset >>

\* The calls of the class: its setters and controls.
Setters == {"setFramerate", "setWidth", "setHeight", "setBorderradius",
            "setSpacebetween", "setMood", "setPosition", "setAutoblinker",
            "setIdleMode", "setCuriosity", "setCyclops", "setHFlicker",
            "setVFlicker"}
Controls == {"open", "close", "blink", "anim_confused", "anim_laugh"}

\* C13: every setter and every control leaves all current values (eye
\* widths, heights, border radii, gap, eye x and y, eyelid overlays) as they
\* were; current values change only in a tick.
C13_SettersKeepCurrents ==
  [][/\ obs'.last \in Setters \cup Controls => Currents(eyes') = Currents(eyes)
     /\ Currents(eyes') # Currents(eyes) => obs'.last = "tick"]_vars

\* set_space_between(15) has returned with the gap still 10 and its target 15.
C13_Witness ==
  /\ obs.last = "setSpacebetween"
  /\ eyes.spaceBetweenNext = 15 /\ eyes.spaceBetweenCurrent = 10
  /\ Currents(eyes) = Currents(obs.pre)

\* The left eye's rectangle as a tick that finds s at time t draws it: size
\* and border radius tweened toward their targets, x and y tweened (y after
\* the vertical centring) and moved by the flicker that is on in s2, the
\* state the tick leaves.
LeftRectOf(s, s2) ==
  LET h == TruncHalf(s.eyeLheightCurrent + s.eyeLheightNext + s2.eyeLheightOffset)
      y == s.eyeLy + ((s.eyeLheightDefault - h) \div 2)
                   - (s2.eyeLheightOffset \div 2)
      dx == IF ~s2.hFlicker THEN 0
            ELSE IF s.hFlickerAlternate THEN s2.hFlickerAmplitude
            ELSE -s2.hFlickerAmplitude
      dy == IF ~s2.vFlicker THEN 0
            ELSE IF s.vFlickerAlternate THEN s2.vFlickerAmplitude
            ELSE -s2.vFlickerAmplitude
  IN << TruncHalf(s.eyeLx + s.eyeLxNext) + dx,
        TruncHalf(y + s.eyeLyNext) + dy,
        TruncHalf(s.eyeLwidthCurrent + s.eyeLwidthNext),
        h,
        TruncHalf(s.eyeLborderRadiusCurrent + s.eyeLborderRadiusNext) >>
LeftRect(s) ==
  << s.eyeLx, s.eyeLy, s.eyeLwidthCurrent, s.eyeLheightCurrent,
     s.eyeLborderRadiusCurrent >>

\* C14: a tick in cyclops mode leaves the right eye's width and height and
\* the gap at 0, whatever their targets, and draws the left eye with its
\* normally tweened x, y, width, height and border radius.
C14_CyclopsZeroesRightEye ==
  [][obs'.last = "tick" /\ eyes.cyclops /\ ~obs'.raised
       => /\ eyes'.eyeRwidthCurrent = 0
          /\ eyes'.eyeRheightCurrent = 0
          /\ eyes'.spaceBetweenCurrent = 0
          /\ LeftRect(eyes') = LeftRectOf(eyes, eyes')]_vars

\* A cyclops tick after set_eye_size(20, 41): the right eye is gone though
\* its width target is 41, and the left eye's width is on its way to 20.
C14_Witness ==
  /\ obs.last = "tick" /\ eyes.cyclops /\ ~obs.raised
  /\ eyes.eyeRwidthNext = 41 /\ eyes.eyeRwidthCurrent = 0
  /\ eyes.eyeRheightCurrent = 0 /\ eyes.spaceBetweenCurrent = 0
  /\ eyes.eyeLwidthCurrent = 28

Max(a, b) == IF a >= b THEN a ELSE b

\* C15: the travel range is never negative: the largest left-eye x is
\* max(0, screen width - left width - gap - right width) and the largest y is
\* max(0, screen height - left default height), also for eyes wider or
\* taller than the screen.
C15_TravelRangeNotNegative ==
  /\ getScreenConstraint_X(eyes)
       = Max(0, ScreenWidth - eyes.eyeLwidthCurrent
                  - eyes.spaceBetweenCurrent - eyes.eyeRwidthCurrent)
  /\ getScreenConstraint_Y(eyes)
       = Max(0, ScreenHeight - eyes.eyeLheightDefault)

\* C16: setPosition called with a value that is none of the nine positions
\* is ignored: the left eye's target and every other field are what they
\* were before the call.
C16_InvalidPositionIgnored ==
  obs.last = "setPosition" /\ obs.call.args[1] \notin Positions
    => eyes = obs.pre

\* C17: setMood called with a value that is none of the four moods is
\* ignored: the mood flags are what they were before the call.
C17_InvalidMoodIgnored ==
  obs.last = "setMood" /\ obs.call.args[1] \notin Moods
    => MoodFlags(eyes) = MoodFlags(obs.pre)

\* C18: no operation fails: whatever integer sizes, gaps and frame rates the
\* setters were given, every setter, control and tick returns without
\* raising, also a tick in which idle mode or the auto blinker fires.
C18_NoOperationFails == ~obs.raised

\* C19: with the auto blinker on, a tick at time now calls blink() if and
\* only if now >= blinktimer, and then sets blinktimer into
\* [now + interval, now + interval + variation] (seconds, kept in ms); so two
\* automatic blinks are at least the interval apart, the first blink after
\* setAutoblinker(True, i, v) is no earlier than i after the call, and a tick
\* never blinks while the auto blinker is off.
C19_AutoBlinkOnTimer ==
  [][obs'.last = "tick" =>
       LET blinks == "blink" \in obs'.fired
           i == eyes.blinkInterval * 1000
           v == eyes.blinkIntervalVariation * 1000
       IN /\ blinks <=> eyes.autoblinker /\ now >= eyes.blinktimer
          /\ blinks => /\ eyes'.blinktimer >= now + i
                       /\ eyes'.blinktimer <= now + i + v
                       /\ eyes'.eyeLheightNext = 1 /\ eyes'.eyeRheightNext = 1
                       /\ obs.blinkAt >= 0 => now - obs.blinkAt >= i
                       /\ obs.blinkSetAt >= 0 /\ now - obs.blinkSetAt >= i
          /\ ~blinks => eyes'.blinktimer = eyes.blinktimer
                          /\ eyes'.eyeLheightNext >= eyes.eyeLheightNext]_vars

\* The second automatic blink, a second after the first, with an interval of
\* one second set at the start.
C19_Witness ==
  /\ obs.last = "tick" /\ "blink" \in obs.fired /\ obs.blinkAt = now
  /\ eyes.autoblinker /\ eyes.blinkInterval = 1
  /\ obs.calls = 1 /\ obs.blinkSetAt = 0
  /\ now = 2000 /\ eyes.blinktimer = 3000

\* What C20 says of a tick from s at time t to s2: when idle mode is on and
\* t >= idleAnimationTimer the left eye's new target is within
\* [0, x_max] x [0, y_max] (the travel range in that tick, not negative) and
\* the timer is set into [t + interval, t + interval + variation]; otherwise
\* the left eye's target stays.
IdleStep(s, t, s2) ==
  LET xmax == Max(0, getScreenConstraint_X(Tweened(s)))
      ymax == Max(0, getScreenConstraint_Y(Tweened(s)))
      i == s.idleInterval * 1000
      v == s.idleIntervalVariation * 1000
  IN IF s.idle /\ t >= s.idleAnimationTimer
       THEN /\ 0 <= s2.eyeLxNext /\ s2.eyeLxNext <= xmax
            /\ 0 <= s2.eyeLyNext /\ s2.eyeLyNext <= ymax
            /\ s2.idleAnimationTimer >= t + i
            /\ s2.idleAnimationTimer <= t + i + v
       ELSE s2.eyeLxNext = s.eyeLxNext /\ s2.eyeLyNext = s.eyeLyNext

\* C20: with idle mode on, a tick at now >= idleAnimationTimer gives the left
\* eye a new target within the travel range and reschedules the timer; a
\* tick before the timer, or with idle mode off, leaves the target alone.
C20_IdlePicksInRange ==
  [][obs'.last = "tick" => IdleStep(eyes, now, eyes')]_vars

\* Every tweened pair: its current value and its target in a state.
AllPairs == {"eyeLwidth", "eyeRwidth", "eyeLheight", "eyeRheight",
             "eyeLborderRadius", "eyeRborderRadius", "spaceBetween",
             "eyeLx", "eyeLy", "eyeRx", "eyeRy",
             "eyelidsTired", "eyelidsAngry", "eyelidsHappy"}
CurOf(s, f) ==
  CASE f = "eyeLheight" -> s.eyeLheightCurrent
    [] f = "eyeRheight" -> s.eyeRheightCurrent
    [] f = "eyeLx" -> s.eyeLx
    [] f = "eyeLy" -> s.eyeLy
    [] f = "eyeRx" -> s.eyeRx
    [] f = "eyeRy" -> s.eyeRy
    [] f = "eyelidsTired" -> s.eyelidsTiredHeight
    [] f = "eyelidsAngry" -> s.eyelidsAngryHeight
    [] f = "eyelidsHappy" -> s.eyelidsHappyBottomOffset
    [] OTHER -> Cur(s, f)
NxtOf(s, f) ==
  CASE f = "eyeLheight" -> s.eyeLheightNext
    [] f = "eyeRheight" -> s.eyeRheightNext
    [] f = "eyeLx" -> s.eyeLxNext
    [] f = "eyeLy" -> s.eyeLyNext
    [] f = "eyeRx" -> s.eyeRxNext
    [] f = "eyeRy" -> s.eyeRyNext
    [] f = "eyelidsTired" -> s.eyelidsTiredHeightNext
    [] f = "eyelidsAngry" -> s.eyelidsAngryHeightNext
    [] f = "eyelidsHappy" -> s.eyelidsHappyBottomOffsetNext
    [] OTHER -> Nxt(s, f)

\* Pair f, whose target the tick from s to s2 has left alone, is no farther
\* from its target in s2 than it was in s.
NoFarther(s, s2, f) ==
  NxtOf(s2, f) = NxtOf(s, f)
    => Abs(CurOf(s2, f) - NxtOf(s, f)) <= Abs(CurOf(s, f) - NxtOf(s, f))

\* C21 as stated: in a tick that leaves its target unchanged, every tweened
\* current value (eye width, eye height, border radius, gap, eye x, eye y,
\* eyelid overlays) ends no farther from its target than it started, whatever
\* modes are active.
C21_NoTickMovesAway ==
  [][obs'.last = "tick" => \A f \in AllPairs : NoFarther(eyes, eyes', f)]_vars

\* The pairs that nothing but the tween moves in the tick from s to s2: the
\* left width, the border radii and the eyelid overlays always; the right
\* width and the gap outside cyclops mode; a height whose curious offset is 0
\* (the right one outside cyclops mode); an x without horizontal flicker; a y
\* without vertical flicker whose eye is at most one pixel from its default
\* height, so that the vertical centring adds nothing.
Centred(d, h, o) == (d - h) \div 2 = 0 /\ o = 0
TweenedOnly(s, s2) ==
  {"eyeLwidth", "eyeLborderRadius", "eyeRborderRadius",
   "eyelidsTired", "eyelidsAngry", "eyelidsHappy"}
  \cup (IF s.cyclops THEN {} ELSE {"eyeRwidth", "spaceBetween"})
  \cup (IF s2.eyeLheightOffset = 0 THEN {"eyeLheight"} ELSE {})
  \cup (IF s2.eyeRheightOffset = 0 /\ ~s.cyclops THEN {"eyeRheight"} ELSE {})
  \cup (IF s2.hFlicker THEN {} ELSE {"eyeLx", "eyeRx"})
  \cup (IF ~s2.vFlicker /\ Centred(s.eyeLheightDefault, s2.eyeLheightCurrent,
                                   s2.eyeLheightOffset)
          THEN {"eyeLy"} ELSE {})
  \cup (IF ~s2.vFlicker /\ ~s.cyclops
           /\ Centred(s.eyeRheightDefault, s2.eyeRheightCurrent,
                      s2.eyeRheightOffset)
          THEN {"eyeRy"} ELSE {})

\* C21 as amended: in a tick that leaves its target unchanged, a current
\* value that only the tween moves in that tick ends no farther from its
\* target than it started; flicker (x, y), the vertical centring of an eye
\* that is not at its default height (y), the curious offset (height) and
\* cyclops mode (right eye, gap) move a value away from its target.
C21_TweenNeverMovesAway ==
  [][obs'.last = "tick"
       => \A f \in TweenedOnly(eyes, eyes') : NoFarther(eyes, eyes', f)]_vars

\* A tick with horizontal flicker on: the gap has gone from 10 to 12 toward
\* 15 while the left eye was shaken away from its target x.
C21_Witness ==
  /\ obs.last = "tick" /\ eyes.hFlicker
  /\ eyes.spaceBetweenNext = 15 /\ eyes.spaceBetweenCurrent = 12
  /\ obs.pre.spaceBetweenCurrent = 10
  /\ eyes.eyeLx # eyes.eyeLxNext /\ obs.pre.eyeLx = obs.pre.eyeLxNext

\* The anchor of position p on the 3x3 grid over the travel range
\* [0, xmax] x [0, ymax].
Anchor(p, xmax, ymax) ==
  << CASE p \in {W, NW, SW} -> 0
       [] p \in {E, NE, SE} -> xmax
       [] OTHER -> xmax \div 2,
     CASE p \in {N, NE, NW} -> 0
       [] p \in {S, SE, SW} -> ymax
       [] OTHER -> ymax \div 2 >>

\* C22: setPosition(p) sets the left eye's target to the anchor of p on the
\* 3x3 grid over the travel range at the time of the call (x_max and y_max
\* are not negative) and changes nothing else, neither the right eye's
\* targets nor any current value.
C22_PositionIsGridAnchor ==
  obs.last = "setPosition" /\ obs.call.args[1] \in Positions
    => LET xmax == Max(0, getScreenConstraint_X(obs.pre))
           ymax == Max(0, getScreenConstraint_Y(obs.pre))
           a == Anchor(obs.call.args[1], xmax, ymax)
       IN eyes = [obs.pre EXCEPT !.eyeLxNext = a[1], !.eyeLyNext = a[2]]

\* State s with the selected eyes closed (height target 1, not open), and
\* with the selected eyes opened (open, height target at the default).
Closed(s, left, right) ==
  [s EXCEPT !.eyeLheightNext = IF left THEN 1 ELSE @,
            !.eyeL_open = IF left THEN FALSE ELSE @,
            !.eyeRheightNext = IF right THEN 1 ELSE @,
            !.eyeR_open = IF right THEN FALSE ELSE @]
OnlySelected(s, s2, left, right) ==
  /\ s2 = [s EXCEPT !.eyeLheightNext = s2.eyeLheightNext,
                    !.eyeL_open = s2.eyeL_open,
                    !.eyeRheightNext = s2.eyeRheightNext,
                    !.eyeR_open = s2.eyeR_open]
  /\ ~left => s2.eyeLheightNext = s.eyeLheightNext /\ s2.eyeL_open = s.eyeL_open
  /\ ~right => s2.eyeRheightNext = s.eyeRheightNext /\ s2.eyeR_open = s.eyeR_open

C24_RightTargetFollowsLeft ==
  /\ [](obs.last = "tick" =>
          /\ eyes.eyeRxNext
               = eyes.eyeLxNext + eyes.eyeLwidthCurrent + eyes.spaceBetweenCurrent
          /\ eyes.eyeRyNext = eyes.eyeLyNext)
  /\ [][obs'.last \in Setters \cup Controls =>
          /\ eyes'.eyeRxNext = eyes.eyeRxNext
          /\ eyes'.eyeRyNext = eyes.eyeRyNext]_vars

\* C24 as amended: a tick derives the right eye's target from the left eye's
\* target as it is before idle mode moves it and from the gap as it is
\* before cyclops mode collapses it: right target x = the left target x the
\* tick started with + the left eye's current width + the gap tweened in
\* this tick, right target y = the left target y the tick started with.
\* After the tick the two agree with the left target and the current gap
\* unless idle mode picked a new position (x, y) or cyclops mode is on (x).
\* No setter or control writes the right eye's target.
C24_RightTargetFromTickStart ==
  [][/\ obs'.last = "tick" =>
          /\ eyes'.eyeRxNext
               = eyes.eyeLxNext + eyes'.eyeLwidthCurrent
                  + TruncHalf(eyes.spaceBetweenCurrent + eyes.spaceBetweenNext)
          /\ eyes'.eyeRyNext = eyes.eyeLyNext
          /\ "idle" \notin obs'.fired => eyes'.eyeRyNext = eyes'.eyeLyNext
          /\ "idle" \notin obs'.fired /\ ~eyes.cyclops
               => eyes'.eyeRxNext = eyes'.eyeLxNext + eyes'.eyeLwidthCurrent
                                      + eyes'.spaceBetweenCurrent
     /\ obs'.last \in Setters \cup Controls =>
          /\ eyes'.eyeRxNext = eyes.eyeRxNext
          /\ eyes'.eyeRyNext = eyes.eyeRyNext]_vars

\* A tick in which idle mode has sent the left eye to the top left corner:
\* the right eye's target is still beside the left eye's old target.
C24_Witness ==
  /\ obs.last = "tick" /\ "idle" \in obs.fired /\ ~eyes.cyclops
  /\ eyes.eyeLxNext = 0 /\ eyes.eyeLyNext = 0
  /\ eyes.eyeRxNext = 23 + eyes.eyeLwidthCurrent + eyes.spaceBetweenCurrent
  /\ eyes.eyeRyNext = 14

\* C25: once open() has been called for an eye, that eye's open flag is
\* true in every later state, whatever operations follow.
C25_OpenIsPersistent ==
  /\ obs.everOpenL => eyes.eyeL_open
  /\ obs.everOpenR => eyes.eyeR_open

\* C26: one-shot animations end by themselves.  Once anim_confused() has
\* set the confused flag, with ticks occurring and time advancing and no
\* further trigger, eventually the confused flag is false and horizontal
\* flicker is off, and both stay so; likewise anim_laugh(), the laugh flag
\* and vertical flicker.
C26_OneShotsTerminate ==
  /\ eyes.confused ~> [](~eyes.confused /\ ~eyes.hFlicker)
  /\ eyes.laugh ~> [](~eyes.laugh /\ ~eyes.vFlicker)

\* Both animations were triggered, ran and have ended, and the clock has
\* run on to its bound with neither flag nor flicker back on.
C26_Witness ==
  /\ obs.confusedAt >= 0 /\ obs.confusedOnAt >= obs.confusedAt
  /\ obs.confusedOffAt >= obs.confusedOnAt + eyes.confusedAnimationDuration
  /\ obs.laughAt >= 0 /\ obs.laughOnAt >= obs.laughAt
  /\ obs.laughOffAt >= obs.laughOnAt + eyes.laughAnimationDuration
  /\ ~eyes.confused /\ ~eyes.hFlicker /\ ~eyes.laugh /\ ~eyes.vFlicker
  /\ now >= MaxTime

\* The y of an eye after its vertical centring and its tween, before any
\* flicker: h is the height tweened in the same tick, off its curious offset.
CentredY(y, ynext, dflt, cur, nxt, off) ==
  LET h == TruncHalf(cur + nxt + off)
  IN TruncHalf(y + ((dflt - h) \div 2) - (off \div 2) + ynext)
Shift(on, alternate, amplitude) ==
  IF ~on THEN 0 ELSE IF alternate THEN amplitude ELSE -amplitude

\* C27: while horizontal flicker is on, a tick moves both eyes' current x,
\* after their tween, by the same amount: +amplitude when the parity flag is
\* set and -amplitude when it is not, and it toggles the parity flag, so the
\* sign alternates from tick to tick; while it is off a tick neither moves x
\* nor toggles the flag.  The same for vertical flicker and y.
C27_FlickerAlternates ==
  [][obs'.last = "tick" /\ ~obs'.raised =>
       LET dx == Shift(eyes'.hFlicker, eyes.hFlickerAlternate,
                       eyes'.hFlickerAmplitude)
           dy == Shift(eyes'.vFlicker, eyes.vFlickerAlternate,
                       eyes'.vFlickerAmplitude)
       IN /\ eyes'.eyeLx = TruncHalf(eyes.eyeLx + eyes.eyeLxNext) + dx
          /\ eyes'.eyeRx = TruncHalf(eyes.eyeRx + eyes'.eyeRxNext) + dx
          /\ eyes'.hFlickerAlternate = (eyes.hFlickerAlternate # eyes'.hFlicker)
          /\ eyes'.eyeLy
               = CentredY(eyes.eyeLy, eyes.eyeLyNext, eyes.eyeLheightDefault,
                          eyes.eyeLheightCurrent, eyes.eyeLheightNext,
                          eyes'.eyeLheightOffset) + dy
          /\ eyes'.eyeRy
               = CentredY(eyes.eyeRy, eyes'.eyeRyNext, eyes.eyeRheightDefault,
                          eyes.eyeRheightCurrent, eyes.eyeRheightNext,
                          eyes'.eyeRheightOffset) + dy
          /\ eyes'.vFlickerAlternate = (eyes.vFlickerAlternate # eyes'.vFlicker)]_vars

\* Two ticks after setHFlicker(True, 2) from the default position: the first
\* tick moved both eyes 2 to the left (x 21 and 67), the second tweened them
\* half way back and moved them 2 to the right; the parity flag is back at
\* its first value.
C27_Witness ==
  /\ obs.last = "tick" /\ obs.quiet = 2 /\ ~obs.raised
  /\ eyes.hFlicker /\ eyes.hFlickerAmplitude = 2 /\ ~eyes.hFlickerAlternate
  /\ eyes.eyeLx = 24 /\ eyes.eyeRx = 70
  /\ ~eyes.vFlicker /\ ~eyes.vFlickerAlternate

\* The travel range of the left eye as the specification defines it.
XMax(s) ==
  Max(0, ScreenWidth - s.eyeLwidthCurrent - s.spaceBetweenCurrent
           - s.eyeRwidthCurrent)

\* C28: in every tick the curious height offsets are 0 for both eyes when
\* curious is off; when it is on the left offset is 8 if the left eye's
\* target x <= 10, or if cyclops is on and the left eye's target x >=
\* x_max - 10, else 0, and the right offset is 8 if the right eye's target
\* x >= screen width - right current width - 10, else 0.  The offset is
\* added in that tick's height tween; the height defaults stay and a height
\* target stays or becomes the default (reopening) or 1 (auto blink), never
\* a value with the offset in it.
C28_CuriousOffsets ==
  [][obs'.last = "tick" =>
       /\ eyes'.eyeLheightOffset
            = (IF eyes.curious
                  /\ (\/ eyes.eyeLxNext <= 10
                      \/ eyes.cyclops /\ eyes.eyeLxNext >= XMax(eyes) - 10)
                 THEN 8 ELSE 0)
       /\ eyes'.eyeRheightOffset
            = (IF eyes.curious
                  /\ eyes.eyeRxNext >= ScreenWidth - eyes.eyeRwidthCurrent - 10
                 THEN 8 ELSE 0)
       /\ eyes'.eyeLheightCurrent
            = TruncHalf(eyes.eyeLheightCurrent + eyes.eyeLheightNext
                          + eyes'.eyeLheightOffset)
       /\ ~eyes.cyclops =>
            eyes'.eyeRheightCurrent
              = TruncHalf(eyes.eyeRheightCurrent + eyes.eyeRheightNext
                            + eyes'.eyeRheightOffset)
       /\ eyes'.eyeLheightDefault = eyes.eyeLheightDefault
       /\ eyes'.eyeRheightDefault = eyes.eyeRheightDefault
       /\ eyes'.eyeLheightNext
            \in {eyes.eyeLheightNext, eyes.eyeLheightDefault, 1}
       /\ eyes'.eyeRheightNext
            \in {eyes.eyeRheightNext, eyes.eyeRheightDefault, 1}]_vars

\* A curious cyclops looking far right: after set_cyclops(true), a tick and
\* set_position(SE) the left eye's target x is x_max = 92, its offset is 8
\* and its height has gone from 36 to (36 + 36 + 8) / 2 = 40; its height
\* target is still 36.
C28_Witness ==
  /\ obs.last = "tick" /\ eyes.curious /\ eyes.cyclops
  /\ eyes.eyeLxNext = 92 /\ eyes.eyeLheightOffset = 8
  /\ eyes.eyeLheightCurrent = 40 /\ eyes.eyeLheightNext = 36
  /\ eyes.eyeLheightDefault = 36

\* C29: in every tick the target of each eyelid overlay (tired, angry,
\* happy) is floor(current height of the left eye / 2), the height being the
\* one tweened in that tick, when its mood flag is set and 0 otherwise; the
\* tired and angry targets are never both nonzero; and the overlay's current
\* value then becomes floor((current + target) / 2).
C29_OverlayTargets ==
  [][obs'.last = "tick" /\ ~obs'.raised =>
       LET half == eyes'.eyeLheightCurrent \div 2
       IN /\ eyes'.eyelidsTiredHeightNext = (IF eyes.tired THEN half ELSE 0)
          /\ eyes'.eyelidsAngryHeightNext = (IF eyes.angry THEN half ELSE 0)
          /\ eyes'.eyelidsHappyBottomOffsetNext
               = (IF eyes.happy THEN half ELSE 0)
          /\ eyes'.eyelidsTiredHeightNext = 0
               \/ eyes'.eyelidsAngryHeightNext = 0
          /\ eyes'.eyelidsTiredHeight
               = (eyes.eyelidsTiredHeight + eyes'.eyelidsTiredHeightNext) \div 2
          /\ eyes'.eyelidsAngryHeight
               = (eyes.eyelidsAngryHeight + eyes'.eyelidsAngryHeightNext) \div 2
          /\ eyes'.eyelidsHappyBottomOffset
               = (eyes.eyelidsHappyBottomOffset
                    + eyes'.eyelidsHappyBottomOffsetNext) \div 2]_vars

\* The second tick after set_eye_size heights (32, 17) and set_mood(angry):
\* the eyes have different heights, the angry target is half the left eye's
\* height and the angry overlay is on its way there.
C29_Witness ==
  /\ obs.last = "tick" /\ ~obs.raised /\ eyes.angry /\ obs.quiet = 2
  /\ eyes.eyeLheightDefault = 32 /\ eyes.eyeRheightDefault = 17
  /\ eyes.eyeLheightCurrent > eyes.eyeRheightCurrent + 1
  /\ eyes.eyelidsAngryHeightNext = eyes.eyeLheightCurrent \div 2
  /\ eyes.eyelidsAngryHeight > 0
  /\ eyes.eyelidsAngryHeight < eyes.eyelidsAngryHeightNext
  /\ eyes.eyelidsTiredHeightNext = 0

\* The defaults of the geometry.
Defaults(s) ==
  << s.eyeLwidthDefault, s.eyeRwidthDefault, s.eyeLheightDefault,
     s.eyeRheightDefault, s.eyeLborderRadiusDefault,
     s.eyeRborderRadiusDefault, s.spaceBetweenDefault >>
\* The right eye's current width and height and the current gap tween from
\* where they are toward their targets.
TweensBack(s, s2) ==
  /\ s2.eyeRwidthCurrent = TruncHalf(s.eyeRwidthCurrent + s.eyeRwidthNext)
  /\ s2.spaceBetweenCurrent
       = TruncHalf(s.spaceBetweenCurrent + s.spaceBetweenNext)
  /\ s2.eyeRheightCurrent
       = TruncHalf(s.eyeRheightCurrent + s.eyeRheightNext + s2.eyeRheightOffset)

\* C30 as stated: a tick with cyclops active leaves the right eye's width
\* target, its height target, the gap target and all defaults unchanged, and
\* after set_cyclops(false) the right eye's current width and height and the
\* current gap tween back toward those targets.
C30_CyclopsTickKeepsTargets ==
  [][/\ obs'.last = "tick" /\ eyes.cyclops =>
          /\ eyes'.eyeRwidthNext = eyes.eyeRwidthNext
          /\ eyes'.eyeRheightNext = eyes.eyeRheightNext
          /\ eyes'.spaceBetweenNext = eyes.spaceBetweenNext
          /\ Defaults(eyes') = Defaults(eyes)
     /\ obs'.last = "tick" /\ ~obs'.raised /\ ~eyes.cyclops
          /\ obs.call.op = "setCyclops" => TweensBack(eyes, eyes')]_vars

\* C30 as amended: the cyclops collapse does not touch targets.  A tick
\* with cyclops active leaves the right eye's width target, the gap target
\* and all defaults unchanged, and the right eye's height target too unless
\* the auto blink falls due in that tick, which sets it to 1 as in any
\* other tick.  After set_cyclops(false) the right eye's current width and
\* height and the current gap tween back toward their targets.
C30_CollapseKeepsTargets ==
  [][/\ obs'.last = "tick" /\ eyes.cyclops =>
          /\ eyes'.eyeRwidthNext = eyes.eyeRwidthNext
          /\ eyes'.eyeRheightNext
               = (IF "blink" \in obs'.fired THEN 1 ELSE eyes.eyeRheightNext)
          /\ eyes'.spaceBetweenNext = eyes.spaceBetweenNext
          /\ Defaults(eyes') = Defaults(eyes)
     /\ obs'.last = "tick" /\ ~obs'.raised /\ ~eyes.cyclops
          /\ obs.call.op = "setCyclops" => TweensBack(eyes, eyes')]_vars

\* The first tick after set_cyclops(false) that followed a cyclops tick: the
\* right eye's width and height and the gap were 0 and are half way to
\* their targets 36, 36 and 10.
C30_Witness ==
  /\ obs.last = "tick" /\ obs.quiet = 1 /\ ~obs.raised
  /\ obs.call.op = "setCyclops" /\ ~eyes.cyclops /\ obs.pre.cyclops
  /\ obs.pre.eyeRwidthCurrent = 0 /\ obs.pre.eyeRheightCurrent = 0
  /\ obs.pre.spaceBetweenCurrent = 0
  /\ eyes.eyeRwidthCurrent = 18 /\ eyes.eyeRwidthNext = 36
  /\ eyes.eyeRheightCurrent = 18 /\ eyes.eyeRheightNext = 36
  /\ eyes.spaceBetweenCurrent = 5 /\ eyes.spaceBetweenNext = 10

\* C31: an eye closes and opens about a fixed vertical centre.  With flicker
\* off, a constant y target T and an eye's height settled at h (curious
\* offset 0; the right eye while cyclops mode does not collapse it),
\* repeated ticks settle the eye's current y at
\* T + floor((height default - h) / 2) or one pixel less, so that its
\* vertical midpoint is within 2 px of T + height default / 2.
C31_SettlesAboutCentre ==
  obs.quiet >= CentreSettleTicks /\ ~eyes.vFlicker
    /\ eyes.eyeLheightOffset = 0 /\ eyes.eyeRheightOffset = 0
  => LET cL == (eyes.eyeLheightDefault - eyes.eyeLheightCurrent) \div 2
         cR == (eyes.eyeRheightDefault - eyes.eyeRheightCurrent) \div 2
     IN /\ eyes.eyeLy \in {eyes.eyeLyNext + cL, eyes.eyeLyNext + cL - 1}
        /\ Abs(2 * eyes.eyeLy + eyes.eyeLheightCurrent
                 - (2 * eyes.eyeLyNext + eyes.eyeLheightDefault)) <= 4
        /\ ~eyes.cyclops =>
             /\ eyes.eyeRy \in {eyes.eyeRyNext + cR, eyes.eyeRyNext + cR - 1}
             /\ Abs(2 * eyes.eyeRy + eyes.eyeRheightCurrent
                      - (2 * eyes.eyeRyNext + eyes.eyeRheightDefault)) <= 4

C33_TicksAgree ==
  Running /\ Due =>
    \A kb, kx, ky, ki \in Picks :
       /\ eye_drawRaises(eyes, now, kb) = drawRaises(eyes, now, kb)
       /\ ~drawRaises(eyes, now, kb) /\ ~eye_drawRaises(eyes, now, kb)
            => eye_drawEyes(eyes, now, kb, kx, ky, ki)
                 = drawEyes(eyes, now, kb, kx, ky, ki)

\* C34: the end of a one-shot animation overrides the caller's flicker
\* setting.  With set_h_flicker(true, a) in effect when the confused
\* animation is triggered, the amplitude is 20 while the animation runs, and
\* once it has ended horizontal flicker is off and the amplitude is not a
\* (it is 0); likewise set_v_flicker, the laugh animation and amplitude 5.
C34_OneShotEndOverridesFlicker ==
  /\ eyes.confused /\ ~eyes.confusedToggle
       => eyes.hFlicker /\ eyes.hFlickerAmplitude = 20
  /\ obs.confusedOffAt >= 0
       => /\ ~eyes.hFlicker
          /\ eyes.hFlickerAmplitude = 0
          /\ eyes.hFlickerAmplitude \notin FlickerArgs
  /\ eyes.laugh /\ ~eyes.laughToggle
       => eyes.vFlicker /\ eyes.vFlickerAmplitude = 5
  /\ obs.laughOffAt >= 0
       => /\ ~eyes.vFlicker
          /\ eyes.vFlickerAmplitude = 0
          /\ eyes.vFlickerAmplitude \notin FlickerArgs

\* set_h_flicker(true, 7) was in effect when anim_confused() was called, and
\* the animation has run and ended: the flicker is off, the amplitude 0.
C34_Witness ==
  /\ obs.call.op = "anim_confused"
  /\ obs.pre.hFlicker /\ obs.pre.hFlickerAmplitude = 7
  /\ obs.confusedOffAt >= obs.confusedOnAt + 500 /\ obs.confusedOnAt >= 0
  /\ ~eyes.confused /\ ~eyes.hFlicker /\ eyes.hFlickerAmplitude = 0

\* C35: calling anim_confused() again while the animation runs restarts its
\* 500 ms window.  Horizontal flicker is switched off only by a tick, and
\* only by one that comes 500 ms or more after the first tick that followed
\* the latest anim_confused() (obs.confusedOnAt is the time of that tick, -1
\* until it has come), so a trigger leaves a running flicker on and triggers
\* less than 500 ms apart keep it on.  The same for anim_laugh() and
\* vertical flicker.
C35_RetriggerRestartsWindow ==
  [][/\ eyes.hFlicker /\ ~eyes'.hFlicker =>
          /\ obs'.last = "tick"
          /\ obs.confusedAt >= 0 /\ obs.confusedOnAt >= obs.confusedAt
          /\ now >= obs.confusedOnAt + 500
     /\ eyes.vFlicker /\ ~eyes'.vFlicker =>
          /\ obs'.last = "tick"
          /\ obs.laughAt >= 0 /\ obs.laughOnAt >= obs.laughAt
          /\ now >= obs.laughOnAt + 500]_vars

\* anim_confused() was called a third time at 800 ms with the animation
\* running: the flicker had been on since the first tick and it is switched
\* off only now, 500 ms after the tick that followed the third call.
C35_Witness ==
  /\ obs.last = "tick" /\ obs.call.op = "anim_confused" /\ obs.calls = 3
  /\ obs.pre.confused /\ ~obs.pre.confusedToggle /\ obs.pre.hFlicker
  /\ obs.confusedAt = 800 /\ obs.confusedOnAt >= 800
  /\ obs.confusedOffAt = now /\ now >= obs.confusedOnAt + 500
  /\ ~eyes.hFlicker /\ ~eyes.confused /\ ~obs.pre.laugh

\* C36: with the height defaults, 1 or more, held fixed, in every reachable
\* state the left eye's current height is at least 1 and at most its
\* default + 8, and so is the right eye's while cyclops mode has never been
\* turned on.
C36_HeightBounds ==
  /\ eyes.eyeLheightDefault >= 1 /\ eyes.eyeRheightDefault >= 1
  /\ 1 <= eyes.eyeLheightCurrent
  /\ eyes.eyeLheightCurrent <= eyes.eyeLheightDefault + 8
  /\ ~eyes.cyclops =>
       /\ 1 <= eyes.eyeRheightCurrent
       /\ eyes.eyeRheightCurrent <= eyes.eyeRheightDefault + 8

\* A curious left eye at the left edge, as tall as it gets: 43 px over a
\* default of 36, the offset 8 still applied; the right eye at 35.
C36_Witness ==
  /\ obs.last = "tick" /\ eyes.curious /\ ~eyes.cyclops
  /\ eyes.eyeLheightOffset = 8 /\ eyes.eyeLheightDefault = 36
  /\ eyes.eyeLheightCurrent = 43
  /\ eyes.eyeRheightOffset = 0 /\ eyes.eyeRheightCurrent = 35

\* C37: on the 128x64 screen with the default geometry (36x36 eyes, gap 10),
\* cyclops mode never on and no size or gap setter called, under any
\* set_position calls, idle moves, open/close/blink, moods, flicker and
\* ticks the left eye's target is within [0, 46] x [0, 28], the right eye's
\* target x within [46, 92] and its target y within [0, 28], so both eyes'
\* target rectangles lie on the screen.
C37_TargetsOnScreen ==
  /\ eyes.eyeLxNext \in 0..46 /\ eyes.eyeLyNext \in 0..28
  /\ eyes.eyeRxNext \in 46..92 /\ eyes.eyeRyNext \in 0..28
  /\ eyes.eyeLxNext + eyes.eyeLwidthNext <= ScreenWidth
  /\ eyes.eyeLyNext + eyes.eyeLheightDefault <= ScreenHeight
  /\ eyes.eyeRxNext + eyes.eyeRwidthNext <= ScreenWidth
  /\ eyes.eyeRyNext + eyes.eyeRheightDefault <= ScreenHeight

\* Idle mode sent the left eye to the bottom right corner in one tick and
\* to the top left corner in the next: the right eye's target is at the
\* right and bottom edge of its range, the left eye's at the origin.
C37_Witness ==
  /\ obs.last = "tick" /\ eyes.idle /\ "idle" \in obs.fired
  /\ eyes.eyeLxNext = 0 /\ eyes.eyeLyNext = 0
  /\ eyes.eyeRxNext = 92 /\ eyes.eyeRyNext = 28
  /\ eyes.eyeLwidthCurrent = 36 /\ eyes.spaceBetweenCurrent = 10

====
